---- MODULE Spec2Model ----
(***************************************************************************)
(* Model of the distributed card-duel server (Go, Redis-coordinated).      *)
(*                                                                         *)
(* The coordination store (Redis) is modelled by its keys:                 *)
(*   global_card_stock  -> stock        (list)                             *)
(* Every store command and every Lua script is one atomic step; the code   *)
(* of a goroutine between two store commands is folded into the step of    *)
(* the command that follows it, except where it touches memory that        *)
(* another goroutine of the same instance also touches.                    *)
(* Store failures (StoreUnavailable) are not modelled.                     *)
(***************************************************************************)
EXTENDS Integers, Sequences, FiniteSets, TLC

VARIABLES
    stock,        \* Redis list global_card_stock (head first)
    stock0,       \* history: the stock as found at start
    issued,       \* history: one record per script run that returned cards
    calls,        \* history: number of runs of atomicOpenPackScript
    Deck,         \* PlayerState.Deck, per player
    PacksOpened,  \* PlayerState.PacksOpened, per player
    pk,           \* per player: position inside handleWebSocketConnection / openCardPack
    opens,        \* per player: OPEN_PACK commands sent so far
    boot,         \* per instance: position inside initializeDistributedStock
    out,          \* per player: messages written to the player's socket, in order
    State,        \* PlayerState.State, per player
    inbox,        \* per player: payloads published on player:{name}, not yet received
    ps,           \* per player: position of the listenRedisPubSub goroutine
    tradeQueue,   \* Redis list trade_queue (head first)
    tradeLock,    \* Redis key lock:trade: the holder's token, or NoLock
    th,           \* per player: position inside handleTradeCard / performDistributedTrade
    trades,       \* per player: TRADE_CARD commands sent so far
    oc,           \* one call of determineWinner's comparison: its inputs and results
    home,         \* per player: the instance the player is connected to
    now,          \* the clock, in whole seconds (time.Now().Unix())
    CurrentGame,  \* PlayerState.CurrentGame, per player: a session number, 0 for nil
    mq,           \* Redis sorted set matchmaking_queue: the set of its members
    mmLock,       \* Redis key lock:matchmaker: the holder, or NoLock
    mm,           \* per instance: position of distributedMatchmaker
    tm,           \* per player: the matchmakingTimeout goroutines started so far
    ActiveGames,  \* per instance: Server.ActiveGames, player1Name -> session number
    sess,         \* the GameSession objects created so far
    br,           \* the listenForGameEvents goroutines started so far
    gstate,       \* Redis hashes game:state:{name}
    cmd,          \* per player: position of listenClientCommands
    moves,        \* per player: commands sent so far while in a duel
    reported,     \* history: the pairings committed by a pairing pass
    starts,       \* history: the runs of startLocalGame that found a local player
    ticks         \* number of pairing ticks that acquired lock:matchmaker so far

stockVars == <<stock, stock0, issued, calls, PacksOpened, pk, opens, boot>>
tradeVars == <<tradeQueue, tradeLock, th, trades, inbox, ps, State>>
matchVars == <<home, now, CurrentGame, mq, mmLock, mm, tm, ActiveGames, sess, br,
               gstate, cmd, moves, reported, starts, ticks>>
vars == <<stock, stock0, issued, calls, Deck, PacksOpened, pk, opens, boot, out,
          State, inbox, ps, tradeQueue, tradeLock, th, trades, oc,
          home, now, CurrentGame, mq, mmLock, mm, tm, ActiveGames, sess, br,
          gstate, cmd, moves, reported, starts, ticks>>

----------------------------------------------------------------------------
(* Bounds of the model *)

MaxStock == 9
MaxOpens == 3
MaxRest == 1

(* Program constants *)

PACK_SIZE == 3
PackCap_WelcomeExtra == PACK_SIZE + 1
PackCap == 3

Players == {"Alice", "Bob"}
Rest == "rest"

Min(a, b) == IF a < b THEN a ELSE b

RECURSIVE SeqSum(_)
SeqSum(s) == IF s = <<>> THEN 0 ELSE Head(s) + SeqSum(Tail(s))

RECURSIVE Flatten(_)
Flatten(ss) == IF ss = <<>> THEN <<>> ELSE Head(ss) \o Flatten(Tail(ss))

Range(s) == {s[k] : k \in 1..Len(s)}

Last(s) == s[Len(s)]

NoLock == <<>>
NoCard == [id |-> 0, forca |-> 0]

TradeIdle == [pc |-> "idle", card |-> NoCard, deck |-> <<>>, token |-> NoLock, got |-> <<>>]
PubIdle == [pc |-> "recv", deck |-> <<>>, card |-> NoCard]

TradeUnused ==
    /\ State = [p \in Players |-> "Menu"]
    /\ inbox = [p \in Players |-> <<>>]
    /\ ps = [p \in Players |-> PubIdle]
    /\ tradeQueue = <<>> /\ tradeLock = NoLock
    /\ th = [p \in Players |-> TradeIdle]
    /\ trades = [p \in Players |-> 0]

NoResult == [type |-> "", cards |-> <<>>, n |-> 0, v |-> "", txt |-> "", who |-> "", tag |-> 0]

OutcomeUnused ==
    oc = [c1 |-> NoCard, c2 |-> NoCard, done |-> FALSE, r1 |-> NoResult, r2 |-> NoResult]

Instances == {"I1", "I2", "I3"}
NoTicket == [player_name |-> "", server_id |-> "", timestamp |-> 0]
CmdIdle == [pc |-> "idle", key |-> "", field |-> "", card |-> NoCard, sid |-> 0]
MMIdle == [pc |-> "idle", p1 |-> NoTicket, p2 |-> NoTicket, todo |-> <<>>, pass |-> 0]
NoMoves == [p1_card |-> NoCard, p2_card |-> NoCard]

MatchUnused ==
    /\ home = [p \in Players |-> "I1"]
    /\ now = 0
    /\ CurrentGame = [p \in Players |-> 0]
    /\ mq = {} /\ mmLock = NoLock
    /\ mm = [i \in Instances |-> MMIdle]
    /\ tm = [p \in Players |-> <<>>]
    /\ ActiveGames = [i \in Instances |-> [p \in Players |-> 0]]
    /\ sess = <<>> /\ br = <<>>
    /\ gstate = [p \in Players |-> NoMoves]
    /\ cmd = [p \in Players |-> CmdIdle]
    /\ moves = [p \in Players |-> 0]
    /\ reported = <<>> /\ starts = <<>> /\ ticks = 0

----------------------------------------------------------------------------
(* Stock service: atomicOpenPackScript, openCardPackDistributed,           *)
(* openCardPack, handleTakeCardPack                                        *)

\* The k-th card of the supply found in the store. id tells the copies of one
\* catalogue card apart; forca is the strength the catalogue gives it.
StockCard(k) == [id |-> k, forca |-> ((k - 1) % 3) + 1]

\* if current_stock < pack_size then return {} end
LuaHasStock_AnyCard(s) == Len(s) >= 1
LuaHasStock(s) == ~(Len(s) < PACK_SIZE)

\* redis.call('LPOP', stock_key, pack_size): what is returned ...
LuaPopped(s) == SubSeq(s, 1, Min(PACK_SIZE, Len(s)))

\* ... and what stays in the list
LuaRemaining_NoRemove(s) == s
LuaRemaining(s) == SubSeq(s, Min(PACK_SIZE, Len(s)) + 1, Len(s))

\* The script's reply: {} or the popped cards
ScriptReply(s) == IF LuaHasStock(s) THEN LuaPopped(s) ELSE <<>>
ScriptStock(s) == IF LuaHasStock(s) THEN LuaRemaining(s) ELSE s

\* A message on a player's socket: its kind, the cards it names, a number
\* (packs left, seconds), a verdict, the variant of its text, the player it names
\* tag: history, the pairing a match message belongs to
M0(t) == [type |-> t, cards |-> <<>>, n |-> 0, v |-> "", txt |-> "", who |-> "", tag |-> 0]
Msg(t, c, n) == [M0(t) EXCEPT !.cards = c, !.n = n]
NoPacksMsg == Msg("NO_PACKS", <<>>, 0)
CapMsg == Msg("PACK_CAP", <<>>, 0)

Idle(p) == [pc |-> "idle", pack |-> <<>>, mandatory |-> FALSE]

\* openCardPack up to the return of openCardPackDistributed
RunOpenPack(p, isMandatory) ==
    IF ~isMandatory /\ PacksOpened[p] >= PackCap
    THEN /\ out' = [out EXCEPT ![p] = Append(@, CapMsg)]
         /\ pk' = [pk EXCEPT ![p] = Idle(p)]
         /\ UNCHANGED <<stock, issued, calls>>
    ELSE /\ calls' = calls + 1
         /\ stock' = ScriptStock(stock)
         /\ IF Len(ScriptReply(stock)) = 0
            THEN /\ out' = [out EXCEPT ![p] = Append(@, NoPacksMsg)]
                 /\ pk' = [pk EXCEPT ![p] = Idle(p)]
                 /\ UNCHANGED issued
            ELSE /\ issued' = Append(issued, [who |-> p, cards |-> ScriptReply(stock)])
                 /\ pk' = [pk EXCEPT ![p] =
                        [pc |-> "got", pack |-> ScriptReply(stock), mandatory |-> isMandatory]]
                 /\ UNCHANGED out

\* handleWebSocketConnection: the player's first message, then openCardPack(player, true)
Connect(p) ==
    /\ pk[p].pc = "new"
    /\ RunOpenPack(p, TRUE)
    /\ UNCHANGED <<stock0, Deck, PacksOpened, opens, boot>>
    /\ UNCHANGED <<tradeVars, oc, matchVars>>

\* listenClientCommands, case OPEN_PACK: openCardPack(player, false)
OpenPack(p) ==
    /\ pk[p].pc = "idle"
    /\ opens[p] < MaxOpens
    /\ opens' = [opens EXCEPT ![p] = @ + 1]
    /\ RunOpenPack(p, FALSE)
    /\ UNCHANGED <<stock0, Deck, PacksOpened, boot>>
    /\ UNCHANGED <<tradeVars, oc, matchVars>>

\* openCardPack after a pack was returned: deck, counter, LLEN, reply
OpenPackFinish(p) ==
    /\ pk[p].pc = "got"
    /\ Deck' = [Deck EXCEPT ![p] = @ \o pk[p].pack]
    /\ PacksOpened' = [PacksOpened EXCEPT ![p] = @ + 1]
    /\ out' = [out EXCEPT ![p] = Append(@,
            Msg(IF pk[p].mandatory THEN "WELCOME" ELSE "EXTRA", pk[p].pack, Len(stock) \div 3))]
    /\ pk' = [pk EXCEPT ![p] = Idle(p)]
    /\ UNCHANGED <<stock, stock0, issued, calls, opens, boot>>
    /\ UNCHANGED <<tradeVars, oc, matchVars>>

\* handleTakeCardPack: POST /api/v1/stock/take from another instance
TakeCardPack ==
    /\ Cardinality({k \in 1..Len(issued) : issued[k].who = Rest}) < MaxRest
    /\ LuaHasStock(stock)
    /\ calls' = calls + 1
    /\ stock' = ScriptStock(stock)
    /\ issued' = Append(issued, [who |-> Rest, cards |-> ScriptReply(stock)])
    /\ UNCHANGED <<stock0, Deck, PacksOpened, pk, opens, out, boot>>
    /\ UNCHANGED <<tradeVars, oc, matchVars>>

\* The parts of the state a specification does not exercise
StockUnused ==
    /\ stock = <<>> /\ stock0 = <<>> /\ issued = <<>> /\ calls = 0
    /\ PacksOpened = [p \in Players |-> 0]
    /\ pk = [p \in Players |-> Idle(p)]
    /\ opens = [p \in Players |-> 0]
    /\ boot = [i \in Instances |-> "done"]

InitStock ==
    /\ \E n \in 0..MaxStock : stock = [k \in 1..n |-> StockCard(k)]
    /\ stock0 = stock
    /\ issued = <<>>
    /\ calls = 0
    /\ Deck = [p \in Players |-> <<>>]
    /\ PacksOpened = [p \in Players |-> 0]
    /\ pk = [p \in Players |-> [pc |-> "new", pack |-> <<>>, mandatory |-> FALSE]]
    /\ opens = [p \in Players |-> 0]
    /\ boot = [i \in Instances |-> "done"]
    /\ out = [p \in Players |-> <<>>]
    /\ TradeUnused /\ OutcomeUnused /\ MatchUnused

NextStock ==
    \/ \E p \in Players : Connect(p)
    \/ \E p \in Players : OpenPack(p)
    \/ \E p \in Players : OpenPackFinish(p)
    \/ TakeCardPack

SpecStock == InitStock /\ [][NextStock]_vars

----------------------------------------------------------------------------
(* C1: for any interleaving of issue_pack calls, the cards returned by the  *)
(* successful calls, in the order of the calls, followed by what is left in *)
(* the stock are exactly the initial stock: nothing is lost, nothing is     *)
(* returned twice, and returned + remaining = initial length.               *)
C1_NoStockDuplicationOrLoss ==
    /\ Flatten([k \in 1..Len(issued) |-> issued[k].cards]) \o stock = stock0
    /\ SeqSum([k \in 1..Len(issued) |-> Len(issued[k].cards)]) + Len(stock) = Len(stock0)
    /\ \A a, b \in 1..Len(issued) :
          a # b => Range(issued[a].cards) \cap Range(issued[b].cards) = {}

\* Two callers hold a freshly returned pack at the same time, a third call was served
C1_Witness ==
    /\ \A p \in Players : pk[p].pc = "got"
    /\ \E k \in 1..Len(issued) : issued[k].who = Rest

WelcomePacks(p) == Len(SelectSeq(out[p], LAMBDA m : m.type = "WELCOME"))
ExtraPacks(p) == Len(SelectSeq(out[p], LAMBDA m : m.type = "EXTRA"))

\* p's command loop takes an OPEN_PACK in this step
OpensPack(p) == opens'[p] = opens[p] + 1

\* The OPEN_PACK of this step is refused for the cap, the stock untouched
CapRefused(p) ==
    /\ out' = [out EXCEPT ![p] = Append(@, CapMsg)]
    /\ stock' = stock /\ calls' = calls /\ issued' = issued

(* C14 as stated: the welcome pack does not count; a player who received it *)
(* can still open 3 packs with OPEN_PACK, and every OPEN_PACK after those   *)
(* is refused without removing any card from the stock.                     *)
C14_ThreeVoluntaryAfterWelcome ==
    [][\A p \in Players :
          (OpensPack(p) /\ WelcomePacks(p) = 1)
          => IF ExtraPacks(p) >= 3 THEN CapRefused(p) ELSE calls' = calls + 1]_vars

(* C14, amended: the cap of 3 counts every pack the player received, the    *)
(* welcome pack included. An OPEN_PACK of a player who has received fewer   *)
(* than 3 packs goes to the stock script; every OPEN_PACK of a player who   *)
(* has received 3 is refused without removing any card from the stock, and  *)
(* no player ever receives more than 3 packs.                               *)
C14_ThreePacksWelcomeIncluded ==
    /\ [](\A p \in Players : WelcomePacks(p) + ExtraPacks(p) <= 3)
    /\ [][\A p \in Players :
             OpensPack(p)
             => IF WelcomePacks(p) + ExtraPacks(p) >= 3
                THEN CapRefused(p)
                ELSE calls' = calls + 1]_vars

\* A player with the welcome pack and two extra packs was refused a third
\* OPEN_PACK
C14_Witness ==
    \E p \in Players :
        /\ WelcomePacks(p) = 1 /\ ExtraPacks(p) = 2
        /\ Last(out[p]) = CapMsg
        /\ Len(Deck[p]) = 3 * PACK_SIZE

----------------------------------------------------------------------------
(* Boot: initializeDistributedStock, run once by every instance. The supply *)
(* of 90000 shuffled cards is scaled down to SupplySize cards in any order. *)

SupplySize == 3

\* fullCardStock after rand.Shuffle
Supply(perm) == [k \in 1..SupplySize |-> StockCard(perm[k])]

\* if count > 0 { return }
StockExists_Never(count) == FALSE
StockExists(count) == count > 0

\* count := LLen(stockKey); return if the stock exists
BootCheck(i) ==
    /\ boot[i] = "start"
    /\ boot' = [boot EXCEPT ![i] = IF StockExists(Len(stock)) THEN "done" ELSE "push"]
    /\ UNCHANGED <<stock, stock0, issued, calls, Deck, PacksOpened, pk, opens, out>>
    /\ UNCHANGED <<tradeVars, oc, matchVars>>

\* RPush(stockKey, cardJsons...)
BootPush(i, perm) ==
    /\ boot[i] = "push"
    /\ stock' = stock \o Supply(perm)
    /\ boot' = [boot EXCEPT ![i] = "done"]
    /\ UNCHANGED <<stock0, issued, calls, Deck, PacksOpened, pk, opens, out>>
    /\ UNCHANGED <<tradeVars, oc, matchVars>>

InitBoot ==
    /\ \E n \in 0..MaxStock : stock = [k \in 1..n |-> StockCard(k)]
    /\ stock0 = stock
    /\ issued = <<>> /\ calls = 0
    /\ Deck = [p \in Players |-> <<>>]
    /\ PacksOpened = [p \in Players |-> 0]
    /\ pk = [p \in Players |-> [pc |-> "new", pack |-> <<>>, mandatory |-> FALSE]]
    /\ opens = [p \in Players |-> 0]
    /\ boot = [i \in Instances |-> "start"]
    /\ out = [p \in Players |-> <<>>]
    /\ TradeUnused /\ OutcomeUnused /\ MatchUnused

NextBoot ==
    \/ \E i \in Instances : BootCheck(i)
    \/ \E i \in Instances : \E perm \in Permutations(1..SupplySize) : BootPush(i, perm)
    \/ TakeCardPack

SpecBoot == InitBoot /\ [][NextBoot]_vars

(* C15: when the instances boot concurrently on an empty store, the stock   *)
(* is generated exactly once: after all of them have finished, and before   *)
(* any pack is issued, the stock holds the cards of one supply.             *)
C15_StockGeneratedOnce ==
    (/\ stock0 = <<>> /\ issued = <<>>
     /\ \A i \in Instances : boot[i] = "done")
    => Len(stock) = SupplySize

(* C16: initializeDistributedStock called when the stock list is not empty, *)
(* whatever its length, leaves the list unchanged: the call ends at its     *)
(* check and only a call that found the list empty ever pushes cards.       *)
C16_InitialiseIdempotent ==
    [][\A i \in Instances :
          (boot[i] = "start" /\ boot'[i] # "start" /\ stock # <<>>)
          => stock' = stock /\ boot'[i] = "done"]_vars

\* All three instances booted on a stock that was never empty, one pack
\* having been issued in between
C16_Witness ==
    /\ Len(stock0) = 2 * PACK_SIZE /\ Len(stock) = PACK_SIZE
    /\ issued # <<>>
    /\ \A i \in Instances : boot[i] = "done"

----------------------------------------------------------------------------
(* Card trading: handleTradeCard, performDistributedTrade and the           *)
(* TRADE_COMPLETE branch of listenRedisPubSub.                              *)
(*                                                                          *)
(* player.Deck is read and written by the player's command loop and by the  *)
(* player's pub/sub goroutine with no lock held, so every                   *)
(* "player.Deck = append(player.Deck, ...)" is two steps: the read that     *)
(* builds the new slice, and the write of the slice header.                 *)

MaxTrades == 2
DeckSize == 2

Rank(p) == IF p = "Alice" THEN 1 ELSE 2

\* The deck a player brings to the trading post; ids are unique
Deck0(p) == [k \in 1..DeckSize |-> [id |-> 10 * Rank(p) + k, forca |-> k]]
TradeCards == UNION {Range(Deck0(p)) : p \in Players}

RemoveAt(s, i) == SubSeq(s, 1, i - 1) \o SubSeq(s, i + 1, Len(s))

TradeTicket(p, c) == [player_name |-> p, card |-> c]
Payload(k, c, m) == [kind |-> k, card |-> c, msg |-> m]
Send(p, m) == out' = [out EXCEPT ![p] = Append(@, m)]

\* lockValue: ServerID and the nanosecond clock; distinct for every attempt
LockValue(p) == <<p, trades[p]>>

\* if player.State == "InGame" || player.State == "Searching"
TradeRefused_InGameOnly(state) == state = "InGame"
TradeRefused(state) == state = "InGame" \/ state = "Searching"

\* handleTradeCard up to the read of player.Deck that removes the card
TradeCard(p, index) ==
    /\ th[p].pc = "idle"
    /\ trades[p] < MaxTrades
    /\ trades' = [trades EXCEPT ![p] = @ + 1]
    /\ IF TradeRefused(State[p])
       THEN Send(p, M0("TRADE_REFUSED")) /\ UNCHANGED th
       ELSE IF index < 1 \/ index > Len(Deck[p])
       THEN Send(p, M0("TRADE_RANGE")) /\ UNCHANGED th
       ELSE /\ th' = [th EXCEPT ![p] = [TradeIdle EXCEPT !.pc = "rm",
                       !.card = Deck[p][index], !.deck = RemoveAt(Deck[p], index),
                       !.token = LockValue(p)]]
            /\ UNCHANGED out
    /\ UNCHANGED <<Deck, tradeQueue, tradeLock, inbox, ps, State>>
    /\ UNCHANGED <<stockVars, oc, matchVars>>

\* the write of the shortened deck, then SetNX(lock:trade, lockValue, 3 s)
TradeSetNX(p) ==
    /\ th[p].pc = "rm"
    /\ Deck' = [Deck EXCEPT ![p] = th[p].deck]
    /\ IF tradeLock = NoLock
       THEN /\ tradeLock' = th[p].token
            /\ th' = [th EXCEPT ![p].pc = "locked"]
            /\ UNCHANGED out
       ELSE /\ Send(p, M0("TRADE_BUSY"))
            /\ th' = [th EXCEPT ![p].pc = "busy"]
            /\ UNCHANGED tradeLock
    /\ UNCHANGED <<tradeQueue, trades, inbox, ps, State>>
    /\ UNCHANGED <<stockVars, oc, matchVars>>

\* lock not acquired: player.Deck = append(player.Deck, cardToTrade), the read
TradeGiveBackLoad(p) ==
    /\ th[p].pc = "busy"
    /\ th' = [th EXCEPT ![p].pc = "back", ![p].deck = Append(Deck[p], th[p].card)]
    /\ UNCHANGED <<Deck, out, tradeQueue, tradeLock, trades, inbox, ps, State>>
    /\ UNCHANGED <<stockVars, oc, matchVars>>

\* ... and the write
TradeGiveBackStore(p) ==
    /\ th[p].pc = "back"
    /\ Deck' = [Deck EXCEPT ![p] = th[p].deck]
    /\ th' = [th EXCEPT ![p] = TradeIdle]
    /\ UNCHANGED <<out, tradeQueue, tradeLock, trades, inbox, ps, State>>
    /\ UNCHANGED <<stockVars, oc, matchVars>>

\* what LPop leaves in the list
LPopRest_Keep(q) == q
LPopRest(q) == Tail(q)

\* LPop(trade_queue)
TradeLPop(p) ==
    /\ th[p].pc = "locked"
    /\ IF tradeQueue = <<>>
       THEN th' = [th EXCEPT ![p].pc = "push"] /\ UNCHANGED tradeQueue
       ELSE /\ th' = [th EXCEPT ![p].pc = "take", ![p].got = <<Head(tradeQueue)>>]
            /\ tradeQueue' = LPopRest(tradeQueue)
    /\ UNCHANGED <<Deck, out, tradeLock, trades, inbox, ps, State>>
    /\ UNCHANGED <<stockVars, oc, matchVars>>

\* queue was empty: RPush(trade_queue, own ticket), tell the player
TradePush(p) ==
    /\ th[p].pc = "push"
    /\ tradeQueue' = Append(tradeQueue, TradeTicket(p, th[p].card))
    /\ Send(p, Msg("TRADE_QUEUED", <<th[p].card>>, 0))
    /\ th' = [th EXCEPT ![p].pc = "unlock"]
    /\ UNCHANGED <<Deck, tradeLock, trades, inbox, ps, State>>
    /\ UNCHANGED <<stockVars, oc, matchVars>>

\* a ticket was popped: player.Deck = append(player.Deck, receivedCard), the read
TradeTakeLoad(p) ==
    /\ th[p].pc = "take"
    /\ th' = [th EXCEPT ![p].pc = "give", ![p].deck = Append(Deck[p], th[p].got[1].card)]
    /\ UNCHANGED <<Deck, out, tradeQueue, tradeLock, trades, inbox, ps, State>>
    /\ UNCHANGED <<stockVars, oc, matchVars>>

\* ... the write, the reply, and Publish(player:{A}, TRADE_COMPLETE|cardB)
TradeGive(p) ==
    /\ th[p].pc = "give"
    /\ Deck' = [Deck EXCEPT ![p] = th[p].deck]
    /\ Send(p, Msg("TRADE_DONE", <<th[p].card, th[p].got[1].card>>, 0))
    /\ inbox' = [inbox EXCEPT ![th[p].got[1].player_name] =
                    Append(@, Payload("TRADE_COMPLETE", th[p].card, M0("")))]
    /\ th' = [th EXCEPT ![p].pc = "unlock"]
    /\ UNCHANGED <<tradeQueue, tradeLock, trades, ps, State>>
    /\ UNCHANGED <<stockVars, oc, matchVars>>

\* if redis.call("get", KEYS[1]) == ARGV[1] then return redis.call("del", KEYS[1])
ScriptDeletes_Always(stored, val) == TRUE
ScriptDeletes(stored, val) == stored = val

\* the deferred script: delete lock:trade if it still holds lockValue
TradeUnlock(p) ==
    /\ th[p].pc = "unlock"
    /\ tradeLock' = IF ScriptDeletes(tradeLock, th[p].token) THEN NoLock ELSE tradeLock
    /\ th' = [th EXCEPT ![p] = TradeIdle]
    /\ UNCHANGED <<Deck, out, tradeQueue, trades, inbox, ps, State>>
    /\ UNCHANGED <<stockVars, oc, matchVars>>

\* lock:trade reaches its 3 s time to live
TradeLockExpire ==
    /\ tradeLock # NoLock
    /\ tradeLock' = NoLock
    /\ UNCHANGED <<Deck, out, tradeQueue, th, trades, inbox, ps, State>>
    /\ UNCHANGED <<stockVars, oc, matchVars>>

\* listenRedisPubSub receives TRADE_COMPLETE: the read of player.Deck
PubTradeLoad(p) ==
    /\ ps[p].pc = "recv"
    /\ inbox[p] # <<>>
    /\ Head(inbox[p]).kind = "TRADE_COMPLETE"
    /\ inbox' = [inbox EXCEPT ![p] = Tail(@)]
    /\ ps' = [ps EXCEPT ![p] = [pc |-> "store", deck |-> Append(Deck[p], Head(inbox[p]).card),
                                card |-> Head(inbox[p]).card]]
    /\ UNCHANGED <<Deck, out, tradeQueue, tradeLock, th, trades, State>>
    /\ UNCHANGED <<stockVars, oc, matchVars>>

\* ... the write, and the notification to the player
PubTradeStore(p) ==
    /\ ps[p].pc = "store"
    /\ Deck' = [Deck EXCEPT ![p] = ps[p].deck]
    /\ Send(p, Msg("TRADE_COMPLETE", <<ps[p].card>>, 0))
    /\ ps' = [ps EXCEPT ![p] = PubIdle]
    /\ UNCHANGED <<tradeQueue, tradeLock, th, trades, inbox, State>>
    /\ UNCHANGED <<stockVars, oc, matchVars>>

InitTrade ==
    /\ Deck = [p \in Players |-> Deck0(p)]
    /\ out = [p \in Players |-> <<>>]
    /\ TradeUnused /\ StockUnused /\ OutcomeUnused /\ MatchUnused

NextTrade ==
    \/ \E p \in Players : \E index \in 1..(DeckSize + 1) : TradeCard(p, index)
    \/ \E p \in Players : TradeSetNX(p)
    \/ \E p \in Players : TradeGiveBackLoad(p)
    \/ \E p \in Players : TradeGiveBackStore(p)
    \/ \E p \in Players : TradeLPop(p)
    \/ \E p \in Players : TradePush(p)
    \/ \E p \in Players : TradeTakeLoad(p)
    \/ \E p \in Players : TradeGive(p)
    \/ \E p \in Players : TradeUnlock(p)
    \/ TradeLockExpire
    \/ \E p \in Players : PubTradeLoad(p)
    \/ \E p \in Players : PubTradeStore(p)

SpecTrade == InitTrade /\ [][NextTrade]_vars

\* How many copies of card c the decks and the queued tickets hold
Copies(c) ==
    SeqSum([k \in 1..Len(tradeQueue) |-> IF tradeQueue[k].card = c THEN 1 ELSE 0])
    + Cardinality({<<p, k>> \in Players \X (1..(2 * DeckSize + 1)) :
                        k <= Len(Deck[p]) /\ Deck[p][k] = c})

\* No trade is under way and no notification is outstanding
TradeQuiet ==
    \A p \in Players : th[p].pc = "idle" /\ inbox[p] = <<>> /\ ps[p].pc = "recv"

(* C7: whenever no trade is under way, the cards in all decks together with *)
(* the cards held in trade_queue tickets are exactly the cards the players  *)
(* started with: trading neither duplicates nor destroys a card.            *)
C7_TradeConservesCards ==
    TradeQuiet => \A c \in TradeCards : Copies(c) = 1

(* C19: no card is in a ticket of trade_queue and in a player's deck at the *)
(* same time.                                                               *)
C19_QueuedCardInNoDeck ==
    \A k \in 1..Len(tradeQueue) :
        \A p \in Players : tradeQueue[k].card \notin Range(Deck[p])

\* The messages sent so far: <<player, position in out[player]>>
Sent == UNION {{<<p, k>> : k \in DOMAIN out[p]} : p \in Players}

\* Tickets with card c: pushed so far, still queued, popped so far (held by
\* the call that popped them, or already added to the deck of its player)
Pushed(c) ==
    Cardinality({x \in Sent : out[x[1]][x[2]].type = "TRADE_QUEUED"
                              /\ out[x[1]][x[2]].cards = <<c>>})
Queued(c) == Len(SelectSeq(tradeQueue, LAMBDA tk : tk.card = c))
Delivered(c) ==
    Cardinality({x \in Sent : out[x[1]][x[2]].type = "TRADE_DONE"
                              /\ out[x[1]][x[2]].cards[2] = c})
    + Cardinality({p \in Players : th[p].pc \in {"take", "give"} /\ th[p].got[1].card = c})

(* C20: no trade ticket is delivered twice: whatever the interleaving of    *)
(* the trades, every ticket pushed to trade_queue is either still queued or *)
(* was popped by exactly one call, which alone adds its card to a deck.     *)
C20_TicketDeliveredOnce ==
    \A c \in TradeCards : Queued(c) + Delivered(c) = Pushed(c)

\* A call holds a popped ticket while, the lock having expired, the other
\* player's call is inside the critical section too
C20_Witness ==
    \E p, q \in Players :
        /\ p # q
        /\ th[p].pc = "give"
        /\ th[q].pc \in {"locked", "push", "take"}

\* The messages of one kind sent so far
SentOf(type) == {x \in Sent : out[x[1]][x[2]].type = type}

\* p's deck is its first deck with card gone replaced by card got
Swapped(p, gone, got) ==
    /\ Len(Deck[p]) = DeckSize
    /\ Range(Deck[p]) = (Range(Deck0(p)) \ {gone}) \cup {got}

(* C21: trade rendezvous. When one ticket was pushed (by A, offering a) and *)
(* popped by the TRADE_CARD of another player B (offering b), then once the *)
(* trade and its notification are over B's deck has gained exactly a, A's   *)
(* deck has gained exactly b, and both decks have the size they had before. *)
C21_RendezvousSwapsCards ==
    (/\ TradeQuiet /\ tradeQueue = <<>>
     /\ Cardinality(SentOf("TRADE_QUEUED")) = 1
     /\ Cardinality(SentOf("TRADE_DONE")) = 1)
    => \A x \in SentOf("TRADE_QUEUED") : \A y \in SentOf("TRADE_DONE") :
          LET a == out[x[1]][x[2]].cards[1]
              b == out[y[1]][y[2]].cards[1]
          IN  x[1] # y[1] => Swapped(x[1], a, b) /\ Swapped(y[1], b, a)

\* The step is the deferred release of p's call of performDistributedTrade
Releases(p) == th[p].pc = "unlock" /\ th'[p].pc = "idle"

(* C28: the release of a store-wide lock deletes the key only when the      *)
(* stored token is the releaser's own. A release of lock:trade changes the  *)
(* key only if it held the releaser's token, and a release that runs while  *)
(* the key holds the token of another call (which acquired the lock after   *)
(* the releaser's lock had expired) leaves that call's lock in place.       *)
(* (lock:matchmaker is never deleted by a release: only its expiry frees it.) *)
C28_ReleaseOnlyOwnLock ==
    [][\A p \in Players : Releases(p) =>
          /\ tradeLock' # tradeLock => tradeLock = th[p].token
          /\ \A q \in Players \ {p} :
                (tradeLock # NoLock /\ tradeLock = th[q].token) => tradeLock' = tradeLock]_vars

\* q found trade_queue empty before p's ticket was pushed, so q acquired the
\* lock while p was between its LPop and its RPush: p's lock had expired, p
\* has released since, and the key still holds q's token
C28_Witness ==
    \E p \in Players : \E q \in Players \ {p} :
        /\ th[p] = TradeIdle /\ trades[p] = 1 /\ trades[q] = 1
        /\ Len(tradeQueue) = 1 /\ tradeQueue[1].player_name = p
        /\ th[q].pc = "push"
        /\ tradeLock # NoLock /\ tradeLock = th[q].token

\* How many times card c occurs in deck
Occurrences(deck, c) == Cardinality({k \in 1..Len(deck) : deck[k] = c})

\* The step is the end of a call of p that did not get lock:trade
GivesBack(p) == th[p].pc = "back" /\ th'[p].pc = "idle"

(* C29: when handleTradeCard cannot acquire lock:trade, the player has been *)
(* told that the trade system is busy and, when the call ends, the removed  *)
(* card is back in the player's deck, the deck holds no card twice (it is   *)
(* the multiset it was), and trade_queue is as the call found it.           *)
C29_BusyTradeRestoresCard ==
    [][\A p \in Players : GivesBack(p) =>
          /\ \E k \in 1..Len(out[p]) : out[p][k].type = "TRADE_BUSY"
          /\ Occurrences(Deck'[p], th[p].card) = 1
          /\ \A c \in Range(Deck'[p]) : Occurrences(Deck'[p], c) = 1
          /\ tradeQueue' = tradeQueue]_vars

\* p's command loop has read player.Deck and has not yet written the deck
\* it built from it
CommandLoopInDeck(p) == th[p].pc \in {"rm", "back", "give"}

\* p's pub/sub loop has read player.Deck and has not yet written its append
PubSubLoopInDeck(p) == ps[p].pc = "store"

(* C31: the mutations of a player's deck are serialised by the player's     *)
(* lock: the player's command loop and its pub/sub loop are never both      *)
(* between their read of player.Deck and the write of the deck they built   *)
(* from it.                                                                 *)
C31_DeckAccessSerialised ==
    \A p \in Players : ~(CommandLoopInDeck(p) /\ PubSubLoopInDeck(p))

----------------------------------------------------------------------------
(* determineWinner: the comparison of the two moves and the two RESULT      *)
(* messages it builds. A nil card pointer is NoCard.                        *)

MaxForca == 15

\* RESULT|verdict|text: the verdict, the variant of the text, the cards and
\* the player the text names
Result(verdict, txt, cards, who) ==
    [M0("RESULT") EXCEPT !.v = verdict, !.txt = txt, !.cards = cards, !.who = who]

\* if p1Card.Forca > p2Card.Forca
P1Beats_OrTies(p1Card, p2Card) == p1Card.forca >= p2Card.forca
P1Beats(p1Card, p2Card) == p1Card.forca > p2Card.forca

\* else if p2Card.Forca > p1Card.Forca
P2Beats(p1Card, p2Card) == p2Card.forca > p1Card.forca

ResultP1(p1Card, p2Card, p1Name, p2Name) ==
    IF p1Card # NoCard /\ p2Card # NoCard
    THEN IF P1Beats(p1Card, p2Card)
         THEN Result("VITORIA", "venceu", <<p1Card, p2Card>>, p2Name)
         ELSE IF P2Beats(p1Card, p2Card)
         THEN Result("DERROTA", "perdeu", <<p1Card, p2Card>>, p2Name)
         ELSE Result("EMPATE", "ambas", <<p1Card>>, "")
    ELSE IF p1Card = NoCard /\ p2Card # NoCard
    THEN Result("DERROTA", "nao jogou a tempo e perdeu", <<>>, "")
    ELSE IF p2Card = NoCard /\ p1Card # NoCard
    THEN Result("VITORIA", "oponente nao jogou a tempo", <<>>, p2Name)
    ELSE Result("EMPATE", "nenhum jogou a tempo", <<>>, "")

ResultP2(p1Card, p2Card, p1Name, p2Name) ==
    IF p1Card # NoCard /\ p2Card # NoCard
    THEN IF P1Beats(p1Card, p2Card)
         THEN Result("DERROTA", "perdeu", <<p2Card, p1Card>>, p1Name)
         ELSE IF P2Beats(p1Card, p2Card)
         THEN Result("VITORIA", "venceu", <<p2Card, p1Card>>, p1Name)
         ELSE Result("EMPATE", "ambas", <<p1Card>>, "")
    ELSE IF p1Card = NoCard /\ p2Card # NoCard
    THEN Result("VITORIA", "oponente nao jogou a tempo", <<>>, p1Name)
    ELSE IF p2Card = NoCard /\ p1Card # NoCard
    THEN Result("DERROTA", "nao jogou a tempo e perdeu", <<>>, "")
    ELSE Result("EMPATE", "nenhum jogou a tempo", <<>>, "")

\* The moves a session can hold when determineWinner runs: none, or a card
\* of the catalogue (strengths 1..MaxForca; id tells two cards apart)
OutcomeCards == {NoCard} \cup {[id |-> i, forca |-> f] : i \in 1..2, f \in 1..MaxForca}

DetermineOutcome ==
    /\ ~oc.done
    /\ oc' = [oc EXCEPT !.done = TRUE,
                        !.r1 = ResultP1(oc.c1, oc.c2, "Alice", "Bob"),
                        !.r2 = ResultP2(oc.c1, oc.c2, "Alice", "Bob")]
    /\ UNCHANGED <<Deck, out, stockVars, tradeVars, matchVars>>

InitOutcome ==
    /\ \E c1, c2 \in OutcomeCards :
          oc = [c1 |-> c1, c2 |-> c2, done |-> FALSE, r1 |-> NoResult, r2 |-> NoResult]
    /\ Deck = [p \in Players |-> <<>>]
    /\ out = [p \in Players |-> <<>>]
    /\ StockUnused /\ TradeUnused /\ MatchUnused

NextOutcome == DetermineOutcome

SpecOutcome == InitOutcome /\ [][NextOutcome]_vars

(* C6: the verdicts depend only on which moves are present and on their     *)
(* strengths: both present, the higher strength wins and equal strengths    *)
(* draw; exactly one present, the side that played wins and the other loses *)
(* by timeout; none present, draw by double timeout. The two messages carry *)
(* complementary verdicts.                                                  *)
C6_OutcomeByPresenceAndStrength ==
    oc.done =>
        /\ (oc.c1 # NoCard /\ oc.c2 # NoCard /\ oc.c1.forca > oc.c2.forca)
              => (oc.r1.v = "VITORIA" /\ oc.r2.v = "DERROTA")
        /\ (oc.c1 # NoCard /\ oc.c2 # NoCard /\ oc.c1.forca < oc.c2.forca)
              => (oc.r1.v = "DERROTA" /\ oc.r2.v = "VITORIA")
        /\ (oc.c1 # NoCard /\ oc.c2 # NoCard /\ oc.c1.forca = oc.c2.forca)
              => (oc.r1.v = "EMPATE" /\ oc.r2.v = "EMPATE" /\ oc.r1.txt = "ambas")
        /\ (oc.c1 # NoCard /\ oc.c2 = NoCard)
              => /\ oc.r1.v = "VITORIA" /\ oc.r2.v = "DERROTA"
                 /\ oc.r2.txt = "nao jogou a tempo e perdeu"
        /\ (oc.c1 = NoCard /\ oc.c2 # NoCard)
              => /\ oc.r1.v = "DERROTA" /\ oc.r2.v = "VITORIA"
                 /\ oc.r1.txt = "nao jogou a tempo e perdeu"
        /\ (oc.c1 = NoCard /\ oc.c2 = NoCard)
              => /\ oc.r1.v = "EMPATE" /\ oc.r2.v = "EMPATE"
                 /\ oc.r1.txt = "nenhum jogou a tempo"
        /\ <<oc.r1.v, oc.r2.v>> \in
              {<<"VITORIA", "DERROTA">>, <<"DERROTA", "VITORIA">>, <<"EMPATE", "EMPATE">>}

\* Two different cards of equal strength were compared and the duel was drawn
C6_Witness ==
    /\ oc.done /\ oc.c1 # NoCard /\ oc.c2 # NoCard
    /\ oc.c1.id # oc.c2.id /\ oc.c1.forca = oc.c2.forca
    /\ oc.r1.v = "EMPATE"

----------------------------------------------------------------------------
(* Matchmaking and duels: addToMatchmakingQueue, matchmakingTimeout,        *)
(* distributedMatchmaker, notifyMatchStart, handleMatchNotification,        *)
(* startLocalGame, handleGameMove, listenForGameEvents, determineWinner and *)
(* the RESULT branch of listenRedisPubSub.                                  *)
(*                                                                          *)
(* Time is abstract: a sleeping timer may fire, a brain may time out and a  *)
(* lock may expire at any moment; the clock only supplies the timestamps of *)
(* the tickets. handleMatchNotification passes two names to startLocalGame; *)
(* the two server ids startLocalGame also takes are only stored.            *)

MaxTime == 1
MaxEnq == 2
MaxTicks == 2
MaxMoves == 2
gameTurnTimeout == 10

\* What the actions of this part never change
matchIdle == <<stockVars, Deck, tradeQueue, tradeLock, th, trades, ps, oc>>

\* MatchmakingTicket{PlayerName, ServerID, Timestamp: time.Now().Unix()}
Ticket(p, second) == [player_name |-> p, server_id |-> home[p], timestamp |-> second]

\* Order of the sorted set: by score, then by member (the JSON text, which
\* starts with the player name)
TicketBefore(a, b) ==
    \/ a.timestamp < b.timestamp
    \/ a.timestamp = b.timestamp /\ Rank(a.player_name) < Rank(b.player_name)

ZSortedNames == <<"Alice", "Bob">>

RECURSIVE ZSorted(_)
ZSorted(S) ==
    IF S = {} THEN <<>>
    ELSE LET m == CHOOSE x \in S : \A y \in S \ {x} : TicketBefore(x, y)
         IN  <<m>> \o ZSorted(S \ {m})

\* ZRange(key, 0, n - 1)
ZRange(S, n) == SubSeq(ZSorted(S), 1, Min(n, Cardinality(S)))

\* FIND_MATCH commands accepted so far
Enqueues ==
    SeqSum([k \in 1..Cardinality(Players) |-> Len(tm[ZSortedNames[k]])])
    + Cardinality({p \in Players : cmd[p].pc = "zadd"})

InDuel(p) == State[p] = "InGame" /\ CurrentGame[p] # 0

\* listenClientCommands, case FIND_MATCH; addToMatchmakingQueue: State = "Searching"
Enqueue(p) ==
    /\ cmd[p].pc = "idle"
    /\ ~InDuel(p)
    /\ State' = [State EXCEPT ![p] = "Searching"]
    /\ cmd' = [cmd EXCEPT ![p].pc = "zadd"]
    /\ UNCHANGED <<out, inbox, home, now, CurrentGame, mq, mmLock, mm, tm, ActiveGames,
                   sess, br, gstate, moves, reported, starts, ticks>>
    /\ UNCHANGED matchIdle

\* ... at most MaxEnq times in a run
FindMatch(p) == Enqueues < MaxEnq /\ Enqueue(p)

\* addToMatchmakingQueue: ZAdd of the ticket, the reply, go matchmakingTimeout.
\* The clock is read here only: it shows the second of the previous ticket or
\* a later one.
FindMatchZAdd(p, second) ==
    /\ cmd[p].pc = "zadd"
    /\ second >= now /\ second <= MaxTime
    /\ now' = second
    /\ mq' = mq \cup {Ticket(p, second)}
    /\ Send(p, M0("QUEUED"))
    /\ tm' = [tm EXCEPT ![p] = Append(@, [pc |-> "sleep", ticket |-> Ticket(p, second),
                                          pick |-> NoTicket])]
    /\ cmd' = [cmd EXCEPT ![p] = CmdIdle]
    /\ UNCHANGED <<State, inbox, home, CurrentGame, mmLock, mm, ActiveGames,
                   sess, br, gstate, moves, reported, starts, ticks>>
    /\ UNCHANGED matchIdle

\* Failed ZAdd calls in a run
MaxZAddFail == 1

\* Internal-error replies sent so far
ZAddErrors ==
    SeqSum([k \in 1..Cardinality(Players) |->
               Len(SelectSeq(out[ZSortedNames[k]], LAMBDA m : m.type = "INTERNAL_ERROR"))])

\* addToMatchmakingQueue, err != nil: player.State = "Menu" // Reverte o estado
StateAfterZAddError_Searching == "Searching"
StateAfterZAddError == "Menu"

\* addToMatchmakingQueue: ZAdd returns an error
FindMatchZAddFail(p) ==
    /\ cmd[p].pc = "zadd"
    /\ ZAddErrors < MaxZAddFail
    /\ Send(p, M0("INTERNAL_ERROR"))
    /\ State' = [State EXCEPT ![p] = StateAfterZAddError]
    /\ cmd' = [cmd EXCEPT ![p] = CmdIdle]
    /\ UNCHANGED <<inbox, home, now, CurrentGame, mq, mmLock, mm, tm, ActiveGames,
                   sess, br, gstate, moves, reported, starts, ticks>>
    /\ UNCHANGED matchIdle

\* matchmakingTimeout after the sleep: return unless Searching, else State = "Menu"
TimerFire(p, k) ==
    /\ k \in 1..Len(tm[p])
    /\ tm[p][k].pc = "sleep"
    /\ IF State[p] # "Searching"
       THEN tm' = [tm EXCEPT ![p][k].pc = "done"] /\ UNCHANGED State
       ELSE /\ State' = [State EXCEPT ![p] = "Menu"]
            /\ tm' = [tm EXCEPT ![p][k].pc = "scan"]
    /\ UNCHANGED <<out, inbox, home, now, CurrentGame, mq, mmLock, mm, ActiveGames,
                   sess, br, gstate, cmd, moves, reported, starts, ticks>>
    /\ UNCHANGED matchIdle

\* the members of ZRange(0, -1) that contain "player_name":"<name>"
TicketsOf(p, members) == SelectSeq(members, LAMBDA m : m.player_name = p)

\* ZRange(matchmaking_queue, 0, -1) and the search for the player's ticket
TimerScan(p, k) ==
    /\ k \in 1..Len(tm[p])
    /\ tm[p][k].pc = "scan"
    /\ LET mine == TicketsOf(p, ZRange(mq, Cardinality(mq)))
       IN  IF mine = <<>>
           THEN tm' = [tm EXCEPT ![p][k].pc = "done"]
           ELSE tm' = [tm EXCEPT ![p][k].pc = "rem", ![p][k].pick = Head(mine)]
    /\ UNCHANGED <<State, out, inbox, home, now, CurrentGame, mq, mmLock, mm, ActiveGames,
                   sess, br, gstate, cmd, moves, reported, starts, ticks>>
    /\ UNCHANGED matchIdle

\* removed, _ := ZRem(ticketToRemove); if removed > 0
TimerTells_Always(removed) == TRUE
TimerTells(removed) == removed > 0

\* ZRem(ticketToRemove); NO_MATCH_FOUND if it removed the member
TimerRemove(p, k) ==
    /\ k \in 1..Len(tm[p])
    /\ tm[p][k].pc = "rem"
    /\ mq' = mq \ {tm[p][k].pick}
    /\ IF TimerTells(Cardinality({tm[p][k].pick} \cap mq))
       THEN Send(p, M0("NO_MATCH_FOUND"))
       ELSE UNCHANGED out
    /\ tm' = [tm EXCEPT ![p][k].pc = "done"]
    /\ UNCHANGED <<State, inbox, home, now, CurrentGame, mmLock, mm, ActiveGames,
                   sess, br, gstate, cmd, moves, reported, starts, ticks>>
    /\ UNCHANGED matchIdle

\* selectRandomCards(deck, 2): nil, or two cards of the deck. The order of the
\* two cards inside the hand is the deck's: the player may play either one.
Hands_NeverNil(deck) ==
    IF Len(deck) < 2 THEN {<<NoCard, NoCard>>}
    ELSE {<<deck[x[1]], deck[x[2]]>> : x \in {y \in (1..Len(deck)) \X (1..Len(deck)) : y[1] < y[2]}}
Hands(deck) ==
    {<<deck[x[1]], deck[x[2]]>> : x \in {y \in (1..Len(deck)) \X (1..Len(deck)) : y[1] < y[2]}}

Real(n) == [name |-> n, real |-> TRUE]
Ghost(n) == [name |-> n, real |-> FALSE]
\* pass, finals, played: history (the pairing the session was last filled
\* for, the number of runs of determineWinner that sent results for it, the
\* players whose move was stored through it)
NewSession == [p1 |-> Ghost(""), p2 |-> Ghost(""), hand1 |-> <<>>, hand2 |-> <<>>,
               card1 |-> NoCard, card2 |-> NoCard, pass |-> 0, finals |-> 0, played |-> {}]
NewBrain(j, sid, gameID) == [inst |-> j, sid |-> sid, gameID |-> gameID, pc |-> "wait", pending |-> 0]

\* MATCH_FOUND, MATCH_START|hand, TIMER|10
StartMessages(hand, pass) ==
    << [M0("MATCH_FOUND") EXCEPT !.tag = pass],
       [M0("MATCH_START") EXCEPT !.cards = hand, !.tag = pass],
       [M0("TIMER") EXCEPT !.n = gameTurnTimeout, !.tag = pass] >>

\* startLocalGame(player1Name, player2Name, ...) on instance j
StartLocalGame(j, player1Name, player2Name, pass) ==
    LET isP1 == home[player1Name] = j
        localPlayer == IF isP1 THEN player1Name
                       ELSE IF home[player2Name] = j THEN player2Name ELSE ""
    IN
    IF localPlayer = ""
    THEN UNCHANGED <<State, CurrentGame, ActiveGames, sess, br, out, starts>>
    ELSE IF Hands(Deck[localPlayer]) = {}
    THEN /\ Send(localPlayer, M0("NOT_ENOUGH_CARDS"))
         /\ UNCHANGED <<State, CurrentGame, ActiveGames, sess, br, starts>>
    ELSE \E hand \in Hands(Deck[localPlayer]) :
         LET exists == ActiveGames[j][player1Name] # 0
             sid == IF exists THEN ActiveGames[j][player1Name] ELSE Len(sess) + 1
             found == IF exists THEN sess[sid] ELSE NewSession
             session == [found EXCEPT !.played = IF found.pass = pass THEN @ ELSE {}]
             filled == IF isP1
                       THEN [session EXCEPT !.p1 = Real(localPlayer), !.hand1 = hand,
                                            !.p2 = Ghost(player2Name), !.pass = pass]
                       ELSE [session EXCEPT !.p2 = Real(localPlayer), !.hand2 = hand,
                                            !.p1 = Ghost(player1Name), !.pass = pass]
         IN  /\ sess' = IF exists THEN [sess EXCEPT ![sid] = filled] ELSE Append(sess, filled)
             /\ ActiveGames' = [ActiveGames EXCEPT ![j][player1Name] = sid]
             /\ State' = [State EXCEPT ![localPlayer] = "InGame"]
             /\ CurrentGame' = [CurrentGame EXCEPT ![localPlayer] = sid]
             /\ out' = [out EXCEPT ![localPlayer] = @ \o StartMessages(hand, pass)]
             /\ br' = IF isP1 THEN Append(br, NewBrain(j, sid, player1Name)) ELSE br
             /\ starts' = Append(starts, [pass |-> pass, inst |-> j, local |-> localPlayer,
                                          isP1 |-> isP1, sid |-> sid])

\* handleMatchNotification on instance j
HandleMatchNotification(j, req, pass) ==
    IF req.Server1ID = j
    THEN StartLocalGame(j, req.Player1Name, req.Player2Name, pass)
    ELSE IF req.Server2ID = j
    THEN StartLocalGame(j, req.Player2Name, req.Player1Name, pass)
    ELSE UNCHANGED <<State, CurrentGame, ActiveGames, sess, br, out, starts>>

MatchNotificationRequest(p1Ticket, p2Ticket) ==
    [Player1Name |-> p1Ticket.player_name, Player2Name |-> p2Ticket.player_name,
     Server1ID |-> p1Ticket.server_id, Server2ID |-> p2Ticket.server_id]

\* notifyMatchStart on instance i: the calls it makes, in order
NotifyPlan_P2NotNotified(i, p1Ticket, p2Ticket) ==
    (IF p1Ticket.server_id # i THEN <<[kind |-> "remote", to |-> p1Ticket.server_id]>> ELSE <<>>)
    \o (IF p1Ticket.server_id = i THEN <<[kind |-> "local", to |-> i]>> ELSE <<>>)
    \o (IF p2Ticket.server_id = i THEN <<[kind |-> "local", to |-> i]>> ELSE <<>>)

NotifyPlan(i, p1Ticket, p2Ticket) ==
    (IF p1Ticket.server_id # i THEN <<[kind |-> "remote", to |-> p1Ticket.server_id]>> ELSE <<>>)
    \o (IF p2Ticket.server_id # i THEN <<[kind |-> "remote", to |-> p2Ticket.server_id]>> ELSE <<>>)
    \o (IF p1Ticket.server_id = i THEN <<[kind |-> "local", to |-> i]>> ELSE <<>>)
    \o (IF p2Ticket.server_id = i THEN <<[kind |-> "local", to |-> i]>> ELSE <<>>)

\* removed, err := ZRem(p1, p2); if err != nil || removed != 2 { continue }
ZRemCommits_AnyRemoved(removed) == removed >= 1
ZRemCommits(removed) == ~(removed # 2)

\* a tick of distributedMatchmaker: SetNX(lock:matchmaker, 1 s) and ZRange(0, 1)
MMTick(i) ==
    /\ mm[i].pc = "idle"
    /\ mmLock = NoLock
    /\ ticks < MaxTicks
    /\ ticks' = ticks + 1
    /\ mmLock' = <<"held">>
    /\ LET members == ZRange(mq, 2)
       IN  IF Len(members) < 2
           THEN UNCHANGED mm
           ELSE mm' = [mm EXCEPT ![i] = [MMIdle EXCEPT !.pc = "zrem",
                                          !.p1 = members[1], !.p2 = members[2]]]
    /\ UNCHANGED <<State, out, inbox, home, now, CurrentGame, mq, tm, ActiveGames,
                   sess, br, gstate, cmd, moves, reported, starts>>
    /\ UNCHANGED matchIdle

\* ZRem(p1TicketJson, p2TicketJson); on success the pairing is confirmed
MMZRem(i) ==
    /\ mm[i].pc = "zrem"
    /\ mq' = mq \ {mm[i].p1, mm[i].p2}
    /\ IF ZRemCommits(Cardinality({mm[i].p1, mm[i].p2} \cap mq))
       THEN /\ reported' = Append(reported, [orch |-> i, p1 |-> mm[i].p1, p2 |-> mm[i].p2,
                                             done |-> FALSE, failed |-> FALSE])
            /\ mm' = [mm EXCEPT ![i].pc = "notify",
                                ![i].todo = NotifyPlan(i, mm[i].p1, mm[i].p2),
                                ![i].pass = Len(reported) + 1]
       ELSE /\ mm' = [mm EXCEPT ![i] = MMIdle]
            /\ UNCHANGED reported
    /\ UNCHANGED <<State, out, inbox, home, now, CurrentGame, mmLock, tm, ActiveGames,
                   sess, br, gstate, cmd, moves, starts, ticks>>
    /\ UNCHANGED matchIdle

\* the next call of notifyMatchStart: a remote notification that is answered
\* 200 after the remote handler ran, or startLocalGame on this instance
MMCall(i) ==
    /\ mm[i].pc = "notify"
    /\ LET call == Head(mm[i].todo)
           last == Len(mm[i].todo) = 1
       IN  /\ IF call.kind = "remote"
              THEN HandleMatchNotification(call.to,
                       MatchNotificationRequest(mm[i].p1, mm[i].p2), mm[i].pass)
              ELSE StartLocalGame(i, mm[i].p1.player_name, mm[i].p2.player_name, mm[i].pass)
           /\ mm' = [mm EXCEPT ![i] = IF last THEN MMIdle ELSE [@ EXCEPT !.todo = Tail(@)]]
           /\ reported' = IF last THEN [reported EXCEPT ![mm[i].pass].done = TRUE] ELSE reported
    /\ UNCHANGED <<inbox, home, now, mq, mmLock, tm, gstate, cmd, moves, ticks>>
    /\ UNCHANGED matchIdle

\* callRemoteMatchNotification returns an error: notifyMatchStart returns
MMCallFail(i) ==
    /\ mm[i].pc = "notify"
    /\ Head(mm[i].todo).kind = "remote"
    /\ mm' = [mm EXCEPT ![i] = MMIdle]
    /\ reported' = [reported EXCEPT ![mm[i].pass].failed = TRUE]
    /\ UNCHANGED <<State, out, inbox, home, now, CurrentGame, mq, mmLock, tm, ActiveGames,
                   sess, br, gstate, cmd, moves, starts, ticks>>
    /\ UNCHANGED matchIdle

\* lock:matchmaker reaches its 1 s time to live (the deferred release never
\* runs: distributedMatchmaker does not return)
MMLockExpire ==
    /\ mmLock # NoLock
    /\ mmLock' = NoLock
    /\ UNCHANGED <<State, out, inbox, home, now, CurrentGame, mq, mm, tm, ActiveGames,
                   sess, br, gstate, cmd, moves, reported, starts, ticks>>
    /\ UNCHANGED matchIdle

\* The zero Card of an unset hand slot
ZeroCard == [id |-> -1, forca |-> 0]

HandCard(hand, choice) == IF choice <= Len(hand) THEN hand[choice] ELSE ZeroCard

\* listenClientCommands while in a duel; handleGameMove up to HExists
PlayCard(p, command) ==
    /\ cmd[p].pc = "idle"
    /\ InDuel(p)
    /\ moves[p] < MaxMoves
    /\ moves' = [moves EXCEPT ![p] = @ + 1]
    /\ LET session == sess[CurrentGame[p]]
           gameID == session.p1.name
           isP1 == p = session.p1.name
           field == IF isP1 THEN "p1_card" ELSE "p2_card"
           choice == IF command = "1" THEN 1 ELSE 2
           chosenCard == HandCard(IF isP1 THEN session.hand1 ELSE session.hand2, choice)
       IN  IF command \notin {"1", "2"}
           THEN Send(p, M0("INVALID_MOVE")) /\ UNCHANGED cmd
           ELSE IF gstate[gameID][field] # NoCard
           THEN Send(p, M0("ALREADY_PLAYED")) /\ UNCHANGED cmd
           ELSE /\ cmd' = [cmd EXCEPT ![p] = [pc |-> "hset", key |-> gameID,
                                             field |-> field, card |-> chosenCard,
                                             sid |-> CurrentGame[p]]]
                /\ UNCHANGED out
    /\ UNCHANGED <<State, inbox, home, now, CurrentGame, mq, mmLock, mm, tm, ActiveGames,
                   sess, br, gstate, reported, starts, ticks>>
    /\ UNCHANGED matchIdle

\* HSet(game:state:{gameID}, field, card) and Publish(game:channel:{gameID}, MOVE_MADE)
PlayCardHSet(p) ==
    /\ cmd[p].pc = "hset"
    /\ gstate' = [gstate EXCEPT ![cmd[p].key][cmd[p].field] = cmd[p].card]
    /\ br' = [b \in 1..Len(br) |->
                IF br[b].gameID = cmd[p].key /\ br[b].pc = "wait"
                THEN [br[b] EXCEPT !.pending = @ + 1] ELSE br[b]]
    /\ sess' = [sess EXCEPT ![cmd[p].sid].played = @ \cup {p}]
    /\ cmd' = [cmd EXCEPT ![p] = CmdIdle]
    /\ UNCHANGED <<State, out, inbox, home, now, CurrentGame, mq, mmLock, mm, tm, ActiveGames,
                   moves, reported, starts, ticks>>
    /\ UNCHANGED matchIdle

\* fillSessionFromRedis: only the fields that are present are copied
FillSession(session, hash) ==
    [session EXCEPT !.card1 = IF hash.p1_card # NoCard THEN hash.p1_card ELSE @,
                    !.card2 = IF hash.p2_card # NoCard THEN hash.p2_card ELSE @]

\* listenForGameEvents, case msg: HGetAll; both moves present -> fill the session
BrainMove(b) ==
    /\ b \in 1..Len(br)
    /\ br[b].pc = "wait"
    /\ br[b].pending > 0
    /\ LET hash == gstate[br[b].gameID]
       IN  IF hash.p1_card # NoCard /\ hash.p2_card # NoCard
           THEN /\ sess' = [sess EXCEPT ![br[b].sid] = FillSession(@, hash)]
                /\ br' = [br EXCEPT ![b].pc = "resolve", ![b].pending = @ - 1]
           ELSE /\ br' = [br EXCEPT ![b].pending = @ - 1]
                /\ UNCHANGED sess
    /\ UNCHANGED <<State, out, inbox, home, now, CurrentGame, mq, mmLock, mm, tm, ActiveGames,
                   gstate, cmd, moves, reported, starts, ticks>>
    /\ UNCHANGED matchIdle

\* case <-timeout.C: the moves that are in the hash, whichever they are, are
\* enough to go on to determineWinner
TimeoutResolves_BothNeeded(hash) == hash.p1_card # NoCard /\ hash.p2_card # NoCard
TimeoutResolves(hash) == TRUE

\* notifyMatchStart of pairing k is between its first and its last call
Notifying(k) ==
    \E i \in Instances : mm[i].pc \in {"notify", "session", "player"} /\ mm[i].pass = k

\* listenForGameEvents, case timeout: HGetAll, fill the session with what is
\* there. The 10 s of the timer do not pass while the notifyMatchStart that
\* started the duel is still making its calls.
BrainTimeout(b) ==
    /\ b \in 1..Len(br)
    /\ br[b].pc = "wait"
    /\ ~Notifying(sess[br[b].sid].pass)
    /\ TimeoutResolves(gstate[br[b].gameID])
    /\ sess' = [sess EXCEPT ![br[b].sid] = FillSession(@, gstate[br[b].gameID])]
    /\ br' = [br EXCEPT ![b].pc = "resolve"]
    /\ UNCHANGED <<State, out, inbox, home, now, CurrentGame, mq, mmLock, mm, tm, ActiveGames,
                   gstate, cmd, moves, reported, starts, ticks>>
    /\ UNCHANGED matchIdle

\* determineWinner, cleanup: session.Player1.State = "Menu"
StateAfterResult_InGame == "InGame"
StateAfterResult == "Menu"

\* determineWinner(session) on the brain's instance
BrainResolve(b) ==
    /\ b \in 1..Len(br)
    /\ br[b].pc = "resolve"
    /\ br' = [br EXCEPT ![b].pc = "del"]
    /\ LET session == sess[br[b].sid]
           P1 == session.p1
           P2 == session.p2
           resultP1 == [ResultP1(session.card1, session.card2, P1.name, P2.name)
                            EXCEPT !.tag = session.pass]
           resultP2 == [ResultP2(session.card1, session.card2, P1.name, P2.name)
                            EXCEPT !.tag = session.pass]
       IN  IF ~(P1.real /\ State[P1.name] = "InGame")
           THEN UNCHANGED <<State, out, inbox, CurrentGame, ActiveGames, sess>>
           ELSE /\ Send(P1.name, resultP1)
                /\ inbox' = [inbox EXCEPT ![P2.name] = Append(@, Payload("RESULT", NoCard, resultP2))]
                /\ State' = [State EXCEPT ![P1.name] = StateAfterResult]
                /\ CurrentGame' = [CurrentGame EXCEPT ![P1.name] = 0]
                /\ ActiveGames' = [ActiveGames EXCEPT ![br[b].inst][P1.name] = 0]
                /\ sess' = [sess EXCEPT ![br[b].sid].finals = @ + 1]
    /\ UNCHANGED <<home, now, mq, mmLock, mm, tm, gstate, cmd, moves, reported, starts, ticks>>
    /\ UNCHANGED matchIdle

\* Del(game:state:{gameID}); the goroutine ends
BrainDel(b) ==
    /\ b \in 1..Len(br)
    /\ br[b].pc = "del"
    /\ gstate' = [gstate EXCEPT ![br[b].gameID] = NoMoves]
    /\ br' = [br EXCEPT ![b].pc = "done"]
    /\ UNCHANGED <<State, out, inbox, home, now, CurrentGame, mq, mmLock, mm, tm, ActiveGames,
                   sess, cmd, moves, reported, starts, ticks>>
    /\ UNCHANGED matchIdle

\* listenRedisPubSub, RESULT: gameID := player.CurrentGame.Player1.Name
ResultGameID_Player2(session) == session.p2.name
ResultGameID(session) == session.p1.name

\* listenRedisPubSub receives RESULT|...: clean up, forward to the socket
PubResult(p) ==
    /\ ps[p].pc = "recv"
    /\ inbox[p] # <<>>
    /\ Head(inbox[p]).kind = "RESULT"
    /\ inbox' = [inbox EXCEPT ![p] = Tail(@)]
    /\ State' = [State EXCEPT ![p] = "Menu"]
    /\ CurrentGame' = [CurrentGame EXCEPT ![p] = 0]
    /\ ActiveGames' = IF CurrentGame[p] # 0
                      THEN [ActiveGames EXCEPT ![home[p]][ResultGameID(sess[CurrentGame[p]])] = 0]
                      ELSE ActiveGames
    /\ Send(p, Head(inbox[p]).msg)
    /\ UNCHANGED <<home, now, mq, mmLock, mm, tm, sess, br, gstate, cmd, moves, reported, starts, ticks>>
    /\ UNCHANGED matchIdle

\* Alice is connected to I1; Bob to I1 or to I2; I3 has no player
InitMatch ==
    /\ home \in {h \in [Players -> {"I1", "I2"}] : h["Alice"] = "I1"}
    /\ now = 0
    /\ Deck = [p \in Players |-> Deck0(p)]
    /\ out = [p \in Players |-> <<>>]
    /\ State = [p \in Players |-> "Menu"]
    /\ inbox = [p \in Players |-> <<>>]
    /\ ps = [p \in Players |-> PubIdle]
    /\ CurrentGame = [p \in Players |-> 0]
    /\ mq = {} /\ mmLock = NoLock
    /\ mm = [i \in Instances |-> MMIdle]
    /\ tm = [p \in Players |-> <<>>]
    /\ ActiveGames = [i \in Instances |-> [p \in Players |-> 0]]
    /\ sess = <<>> /\ br = <<>>
    /\ gstate = [p \in Players |-> NoMoves]
    /\ cmd = [p \in Players |-> CmdIdle]
    /\ moves = [p \in Players |-> 0]
    /\ reported = <<>> /\ starts = <<>> /\ ticks = 0
    /\ tradeQueue = <<>> /\ tradeLock = NoLock
    /\ th = [p \in Players |-> TradeIdle]
    /\ trades = [p \in Players |-> 0]
    /\ StockUnused /\ OutcomeUnused

\* One pairing and the duel it starts: the wait timers and the expiry of
\* lock:matchmaker come after the duel
NextDuel ==
    \/ \E p \in Players : FindMatch(p)
    \/ \E p \in Players : \E second \in 0..MaxTime : FindMatchZAdd(p, second)
    \/ \E i \in Instances : MMTick(i)
    \/ \E i \in Instances : MMZRem(i)
    \/ \E i \in Instances : MMCall(i)
    \/ \E p \in Players : \E command \in {"1", "2", "FIND_MATCH"} : PlayCard(p, command)
    \/ \E p \in Players : PlayCardHSet(p)
    \/ \E b \in 1..(2 * MaxEnq) : BrainMove(b)
    \/ \E b \in 1..(2 * MaxEnq) : BrainTimeout(b)
    \/ \E b \in 1..(2 * MaxEnq) : BrainResolve(b)
    \/ \E b \in 1..(2 * MaxEnq) : BrainDel(b)
    \/ \E p \in Players : PubResult(p)

SpecDuel == InitMatch /\ [][NextDuel]_vars

\* The goroutines of a duel are scheduled and the turn timer fires:
\* notifyMatchStart goes on to its next call, the brain takes a pending
\* notification, its timer expires, determineWinner and Del run, and
\* listenRedisPubSub takes the next message of its channel.
FairDuel ==
    /\ \A i \in Instances : WF_vars(MMCall(i))
    /\ \A b \in 1..(2 * MaxEnq) :
          /\ WF_vars(BrainMove(b)) /\ WF_vars(BrainTimeout(b))
          /\ WF_vars(BrainResolve(b)) /\ WF_vars(BrainDel(b))
    /\ \A p \in Players : WF_vars(PubResult(p))

SpecDuelFair == SpecDuel /\ FairDuel

\* Pairing only: the duels that are started are not played
NextPair ==
    \/ \E p \in Players : FindMatch(p)
    \/ \E p \in Players : \E second \in 0..MaxTime : FindMatchZAdd(p, second)
    \/ \E p \in Players : \E k \in 1..MaxEnq : TimerFire(p, k)
    \/ \E p \in Players : \E k \in 1..MaxEnq : TimerScan(p, k)
    \/ \E p \in Players : \E k \in 1..MaxEnq : TimerRemove(p, k)
    \/ \E i \in Instances : MMTick(i)
    \/ \E i \in Instances : MMZRem(i)
    \/ \E i \in Instances : MMCall(i)
    \/ \E i \in Instances : MMCallFail(i)
    \/ MMLockExpire

SpecPair == InitMatch /\ [][NextPair]_vars

\* TRADE_CARD commands of one player in a run with matchmaking
MaxPhaseTrades == 1

\* Matchmaking and trading together: a player's command loop takes
\* FIND_MATCH and TRADE_CARD one after the other, tickets are paired and the
\* duels are started (not played), trades go on beside them
NextPhaseTrade ==
    \/ \E p \in Players : th[p].pc = "idle" /\ FindMatch(p)
    \/ \E p \in Players : \E second \in 0..MaxTime : FindMatchZAdd(p, second)
    \/ \E i \in Instances : MMTick(i)
    \/ \E i \in Instances : MMZRem(i)
    \/ \E i \in Instances : MMCall(i)
    \/ \E p \in Players : \E index \in 1..(DeckSize + 1) :
          cmd[p].pc = "idle" /\ trades[p] < MaxPhaseTrades /\ TradeCard(p, index)
    \/ \E p \in Players : TradeSetNX(p)
    \/ \E p \in Players : TradeGiveBackLoad(p)
    \/ \E p \in Players : TradeGiveBackStore(p)
    \/ \E p \in Players : TradeLPop(p)
    \/ \E p \in Players : TradePush(p)
    \/ \E p \in Players : TradeTakeLoad(p)
    \/ \E p \in Players : TradeGive(p)
    \/ \E p \in Players : TradeUnlock(p)
    \/ TradeLockExpire
    \/ \E p \in Players : PubTradeLoad(p)
    \/ \E p \in Players : PubTradeStore(p)

SpecPhaseTrade == InitMatch /\ [][NextPhaseTrade]_vars

\* The step is p's command loop taking a TRADE_CARD command
TakesTradeCard(p) == trades'[p] = trades[p] + 1

NotifyCall(i) ==
    /\ mm[i].pc = "notify" /\ mm'[i] # mm[i]
    /\ reported'[mm[i].pass].failed = reported[mm[i].pass].failed

\* The player that the next call of notifyMatchStart on instance i starts:
\* the first of startLocalGame's two names that is connected to the called
\* instance ("" if neither is)
CalledPlayer(i) ==
    LET call == Head(mm[i].todo)
        j == call.to
        p1 == mm[i].p1.player_name
        p2 == mm[i].p2.player_name
        swapped == call.kind = "remote" /\ mm[i].p1.server_id # j
        first == IF swapped THEN p2 ELSE p1
        second == IF swapped THEN p1 ELSE p2
    IN  IF call.kind = "remote" /\ mm[i].p1.server_id # j /\ mm[i].p2.server_id # j THEN ""
        ELSE IF home[first] = j THEN first
        ELSE IF home[second] = j THEN second ELSE ""

(* C32: startLocalGame for a local player whose deck has fewer than 2 cards *)
(* sends that player an error and starts nothing: no phase and no duel      *)
(* reference changes, the player gets no MATCH_FOUND, MATCH_START or TIMER, *)
(* no duel record is created or changed and no brain is started.            *)
C32_ShortDeckStartsNoDuel ==
    [][\A i \in Instances :
          (/\ NotifyCall(i) /\ CalledPlayer(i) # ""
           /\ Len(Deck[CalledPlayer(i)]) < 2)
          => /\ out' = [out EXCEPT ![CalledPlayer(i)] = Append(@, M0("NOT_ENOUGH_CARDS"))]
             /\ UNCHANGED <<State, CurrentGame, ActiveGames, sess, br, starts>>]_vars

\* A player who had traded a card away was paired and was sent the error
C32_Witness ==
    \E p \in Players :
        /\ Len(Deck[p]) < 2 /\ out[p] # <<>>
        /\ Last(out[p]).type = "NOT_ENOUGH_CARDS"
        /\ State[p] = "Searching" /\ CurrentGame[p] = 0
        /\ \A k \in 1..Len(starts) : starts[k].local # p

\* Enqueues that succeed or fail, and the wait timers; no pairing
NextEnqueue ==
    \/ \E p \in Players : FindMatch(p)
    \/ \E p \in Players : \E second \in 0..MaxTime : FindMatchZAdd(p, second)
    \/ \E p \in Players : FindMatchZAddFail(p)
    \/ \E p \in Players : \E k \in 1..MaxEnq : TimerFire(p, k)
    \/ \E p \in Players : \E k \in 1..MaxEnq : TimerScan(p, k)
    \/ \E p \in Players : \E k \in 1..MaxEnq : TimerRemove(p, k)

SpecEnqueue == InitMatch /\ [][NextEnqueue]_vars

\* The step tells p that the enqueue failed
ToldInternalError(p) ==
    /\ Len(out'[p]) = Len(out[p]) + 1
    /\ Last(out'[p]).type = "INTERNAL_ERROR"

(* C33: when the ZADD of the matchmaking ticket fails, the player is told   *)
(* of the internal error and nothing else, the player's phase is Menu       *)
(* afterwards, no wait timer is started and matchmaking_queue is unchanged. *)
C33_FailedEnqueueRollsBack ==
    [][\A p \in Players : ToldInternalError(p) =>
          /\ out' = [out EXCEPT ![p] = Append(@, M0("INTERNAL_ERROR"))]
          /\ State'[p] = "Menu"
          /\ tm' = tm /\ mq' = mq]_vars

\* A player's enqueue failed: it is in Menu with no ticket and no timer
C33_Witness ==
    \E p \in Players :
        /\ out[p] # <<>> /\ Last(out[p]).type = "INTERNAL_ERROR"
        /\ State[p] = "Menu" /\ tm[p] = <<>>
        /\ \A t \in mq : t.player_name # p

\* FIND_MATCH commands in a run in which a player searches again after a duel
MaxRematchEnq == 3

\* A match, its duel decided by the turn timeout, and a later search, with
\* the wait timers of all searches; the pairing passes are instance I1's
NextRematch ==
    \/ \E p \in Players : Enqueues < MaxRematchEnq /\ Enqueue(p)
    \/ \E p \in Players : \E second \in 0..MaxTime : FindMatchZAdd(p, second)
    \/ \E p \in Players : \E k \in 1..MaxRematchEnq : TimerFire(p, k)
    \/ \E p \in Players : \E k \in 1..MaxRematchEnq : TimerScan(p, k)
    \/ \E p \in Players : \E k \in 1..MaxRematchEnq : TimerRemove(p, k)
    \/ MMTick("I1")
    \/ MMZRem("I1")
    \/ MMCall("I1")
    \/ \E b \in 1..(2 * MaxEnq) : BrainTimeout(b)
    \/ \E b \in 1..(2 * MaxEnq) : BrainResolve(b)
    \/ \E b \in 1..(2 * MaxEnq) : BrainDel(b)
    \/ \E p \in Players : PubResult(p)

SpecRematch == InitMatch /\ [][NextRematch]_vars

\* Ticket t was committed by a pairing pass
Matched(t) == \E k \in 1..Len(reported) : t \in {reported[k].p1, reported[k].p2}

\* The step is the wake-up of p's k-th wait timer: its check of player.State
TimerWakes(p, k) ==
    k <= Len(tm[p]) /\ tm[p][k].pc = "sleep" /\ tm'[p][k].pc # "sleep"

\* p was told the result of a duel and entered the queue again afterwards
SearchesAgain(p) ==
    \E a, b \in 1..Len(out[p]) :
        a < b /\ out[p][a].type = "RESULT" /\ out[p][b].type = "QUEUED"

\* A later ticket of p than t is queued and its wait timer is still asleep
LaterSearchWaiting(p, t) ==
    \E k \in 1..Len(tm[p]) :
        /\ tm[p][k].ticket # t /\ tm[p][k].ticket \in mq
        /\ t.timestamp < tm[p][k].ticket.timestamp
        /\ tm[p][k].pc = "sleep"

(* C36: a wait timer only cancels the search it was started for. When the   *)
(* player was matched, the duel has finished and the player has sent a      *)
(* later FIND_MATCH whose own timer is still asleep, the timer of the       *)
(* earlier search returns when it wakes up: it does not reset the phase and *)
(* does not go on to remove the later ticket and send NO_MATCH_FOUND.       *)
C36_TimerCancelsOwnSearchOnly ==
    [][\A p \in Players : \A k \in 1..MaxRematchEnq :
          (/\ TimerWakes(p, k)
           /\ Matched(tm[p][k].ticket) /\ SearchesAgain(p)
           /\ LaterSearchWaiting(p, tm[p][k].ticket))
          => tm'[p][k].pc = "done" /\ State' = State]_vars

\* FIND_MATCH commands in a run of two duels, one after the other
MaxLeakEnq == 4

\* Two players who search from Menu only, are paired by instance I2, play
\* and search again after their duel; the matchmaker lock expires in between
NextLeak ==
    \/ \E p \in Players : Enqueues < MaxLeakEnq /\ State[p] = "Menu" /\ Enqueue(p)
    \/ \E p \in Players : \E second \in 0..MaxTime : FindMatchZAdd(p, second)
    \/ MMTick("I2")
    \/ MMZRem("I2")
    \/ MMCall("I2")
    \/ MMLockExpire
    \/ \E p \in Players : PlayCard(p, "1")
    \/ \E p \in Players : PlayCardHSet(p)
    \/ \E b \in 1..(2 * MaxEnq) : BrainTimeout(b)
    \/ \E b \in 1..(2 * MaxEnq) : BrainResolve(b)
    \/ \E b \in 1..(2 * MaxEnq) : BrainDel(b)
    \/ \E p \in Players : PubResult(p)

SpecLeak == InitMatch /\ [][NextLeak]_vars

\* Every brain started so far has deleted its move hash and ended
BrainsEnded == \A b \in 1..Len(br) : br[b].pc = "done"

\* The step is the first startLocalGame of a pairing
FirstStart ==
    /\ Len(starts') > Len(starts)
    /\ \A k \in 1..Len(starts) : starts[k].pass # Last(starts').pass

(* C37: moves never leak between duels. When the duel of a pairing starts   *)
(* and every earlier brain has ended, the move hash game:state:{p1_name} of *)
(* the new duel holds no p1_card and no p2_card.                            *)
C37_NoMoveLeftAtStart ==
    [][(BrainsEnded /\ FirstStart)
          => gstate[sess'[Last(starts').sid].p1.name] = NoMoves]_vars

\* The pairing whose startLocalGame started brain b
BrainPass(b) == SelectSeq(starts, LAMBDA st : st.isP1)[b].pass

\* The duel brain b was started for was resolved, and its P1 is in the duel
\* of a later pairing
InLaterDuel(b) ==
    LET P1 == br[b].gameID
    IN  /\ \E x \in 1..Len(out[P1]) :
              out[P1][x].type = "RESULT" /\ out[P1][x].tag = BrainPass(b)
        /\ State[P1] = "InGame" /\ CurrentGame[P1] # 0
        /\ sess[CurrentGame[P1]].pass > BrainPass(b)

\* The step is brain b's determineWinner or its Del of the move hash
BrainFinishes(b) ==
    \/ br[b].pc = "resolve" /\ br'[b].pc = "del"
    \/ br[b].pc = "del" /\ br'[b].pc = "done"

(* C38: a duel brain only finalises the duel it was started for. When the   *)
(* brain's duel was resolved and its P1 is in the duel of a later pairing,  *)
(* the brain's determineWinner and its Del send no RESULT, reset no phase   *)
(* and delete neither the duel record nor the move hash.                    *)
C38_BrainFinalisesOwnDuelOnly ==
    [][\A b \in 1..Len(br) : (InLaterDuel(b) /\ BrainFinishes(b)) =>
          UNCHANGED <<State, CurrentGame, ActiveGames, out, inbox, gstate>>]_vars

----------------------------------------------------------------------------
(* The instance-local locks: Server.GamesMutex, GameSession.mu and          *)
(* PlayerState.mu. A lock is held by the task whose position is between its *)
(* Lock and its Unlock; a task that locks and unlocks with no other Lock in *)
(* between does so within one step, which waits for the lock to be free.    *)

\* The call of notifyMatchStart that mm[i] is making: its instance and the
\* (player1Name, player2Name) that reach startLocalGame there
SLGInst(i) == IF Head(mm[i].todo).kind = "remote" THEN Head(mm[i].todo).to ELSE i

SLGNames(i) ==
    LET req == MatchNotificationRequest(mm[i].p1, mm[i].p2)
    IN  IF Head(mm[i].todo).kind = "remote" /\ req.Server1ID # SLGInst(i)
        THEN <<req.Player2Name, req.Player1Name>>
        ELSE <<req.Player1Name, req.Player2Name>>

SLGIsP1(i) == home[SLGNames(i)[1]] = SLGInst(i)

SLGLocal(i) ==
    IF SLGIsP1(i) THEN SLGNames(i)[1]
    ELSE IF home[SLGNames(i)[2]] = SLGInst(i) THEN SLGNames(i)[2] ELSE ""

\* s.GamesMutex of instance j is free: no startLocalGame on j is between
\* its GamesMutex.Lock and its GamesMutex.Unlock
GamesMutexFree(j) ==
    \A i \in Instances : ~(mm[i].pc = "session" /\ SLGInst(i) = j)

\* session.mu of duel record sid is free: no brain is inside determineWinner
\* on that record
SessionMuFree(sid) ==
    \A b \in 1..Len(br) : ~(br[b].sid = sid /\ br[b].pc \in {"dwPlayer", "dwGames"})

\* player.mu of p is free: p's pub/sub goroutine is not inside its RESULT
\* clean-up
PlayerMuFree(p) == ps[p].pc # "games"

lockIdle == <<stockVars, Deck, tradeQueue, tradeLock, th, trades, oc>>

\* notifyMatchStart goes on to its next call, or returns after the last one
MMAdvance(i) ==
    /\ mm' = [mm EXCEPT ![i] = IF Len(mm[i].todo) = 1 THEN MMIdle
                                ELSE [MMIdle EXCEPT !.pc = "notify", !.p1 = mm[i].p1,
                                         !.p2 = mm[i].p2, !.todo = Tail(mm[i].todo),
                                         !.pass = mm[i].pass]]
    /\ reported' = IF Len(mm[i].todo) = 1
                   THEN [reported EXCEPT ![mm[i].pass].done = TRUE] ELSE reported

\* startLocalGame up to GamesMutex.Lock and the look-up of the duel record
SLGLock(i) ==
    /\ mm[i].pc = "notify"
    /\ IF SLGLocal(i) = ""
       THEN /\ MMAdvance(i)
            /\ UNCHANGED <<out, ActiveGames, sess>>
       ELSE IF Hands(Deck[SLGLocal(i)]) = {}
       THEN /\ Send(SLGLocal(i), M0("NOT_ENOUGH_CARDS"))
            /\ MMAdvance(i)
            /\ UNCHANGED <<ActiveGames, sess>>
       ELSE /\ GamesMutexFree(SLGInst(i))
            /\ \E hand \in Hands(Deck[SLGLocal(i)]) :
               LET j == SLGInst(i)
                   exists == ActiveGames[j][SLGNames(i)[1]] # 0
                   sid == IF exists THEN ActiveGames[j][SLGNames(i)[1]] ELSE Len(sess) + 1
               IN  /\ sess' = IF exists THEN sess ELSE Append(sess, NewSession)
                   /\ ActiveGames' = [ActiveGames EXCEPT ![j][SLGNames(i)[1]] = sid]
                   /\ mm' = [mm EXCEPT ![i] = [pc |-> "session", p1 |-> mm[i].p1,
                                 p2 |-> mm[i].p2, todo |-> mm[i].todo, pass |-> mm[i].pass,
                                 sid |-> sid, hand |-> hand]]
            /\ UNCHANGED <<out, reported>>
    /\ UNCHANGED <<State, inbox, home, now, CurrentGame, mq, mmLock, tm, br, gstate, cmd,
                   moves, starts, ticks, ps, lockIdle>>

\* startLocalGame: session.mu.Lock, the record is filled, both locks released
SLGFill(i) ==
    /\ mm[i].pc = "session"
    /\ SessionMuFree(mm[i].sid)
    /\ LET found == sess[mm[i].sid]
           session == [found EXCEPT !.played = IF found.pass = mm[i].pass THEN @ ELSE {}]
       IN  sess' = [sess EXCEPT ![mm[i].sid] =
                IF SLGIsP1(i)
                THEN [session EXCEPT !.p1 = Real(SLGLocal(i)), !.hand1 = mm[i].hand,
                                     !.p2 = Ghost(SLGNames(i)[2]), !.pass = mm[i].pass]
                ELSE [session EXCEPT !.p2 = Real(SLGLocal(i)), !.hand2 = mm[i].hand,
                                     !.p1 = Ghost(SLGNames(i)[1]), !.pass = mm[i].pass]]
    /\ mm' = [mm EXCEPT ![i].pc = "player"]
    /\ UNCHANGED <<State, out, inbox, home, now, CurrentGame, mq, mmLock, tm, ActiveGames,
                   br, gstate, cmd, moves, reported, starts, ticks, ps, lockIdle>>

\* startLocalGame: localPlayer.mu, the start messages, the brain
SLGPlayer(i) ==
    /\ mm[i].pc = "player"
    /\ PlayerMuFree(SLGLocal(i))
    /\ State' = [State EXCEPT ![SLGLocal(i)] = "InGame"]
    /\ CurrentGame' = [CurrentGame EXCEPT ![SLGLocal(i)] = mm[i].sid]
    /\ out' = [out EXCEPT ![SLGLocal(i)] = @ \o StartMessages(mm[i].hand, mm[i].pass)]
    /\ br' = IF SLGIsP1(i) THEN Append(br, NewBrain(SLGInst(i), mm[i].sid, SLGNames(i)[1]))
             ELSE br
    /\ starts' = Append(starts, [pass |-> mm[i].pass, inst |-> SLGInst(i),
                                 local |-> SLGLocal(i), isP1 |-> SLGIsP1(i),
                                 sid |-> mm[i].sid])
    /\ MMAdvance(i)
    /\ UNCHANGED <<inbox, home, now, mq, mmLock, tm, ActiveGames, sess, gstate, cmd, moves,
                   ticks, ps, lockIdle>>

\* determineWinner: session.mu.Lock, the guard, the two results
DWLock(b) ==
    /\ b \in 1..Len(br)
    /\ br[b].pc = "resolve"
    /\ SessionMuFree(br[b].sid)
    /\ LET session == sess[br[b].sid]
           P1 == session.p1
           P2 == session.p2
           resultP1 == [ResultP1(session.card1, session.card2, P1.name, P2.name)
                            EXCEPT !.tag = session.pass]
           resultP2 == [ResultP2(session.card1, session.card2, P1.name, P2.name)
                            EXCEPT !.tag = session.pass]
       IN  IF ~(P1.real /\ State[P1.name] = "InGame")
           THEN /\ br' = [br EXCEPT ![b].pc = "del"]
                /\ UNCHANGED <<out, inbox, sess>>
           ELSE /\ Send(P1.name, resultP1)
                /\ inbox' = [inbox EXCEPT ![P2.name] =
                                 Append(@, Payload("RESULT", NoCard, resultP2))]
                /\ sess' = [sess EXCEPT ![br[b].sid].finals = @ + 1]
                /\ br' = [br EXCEPT ![b].pc = "dwPlayer"]
    /\ UNCHANGED <<State, home, now, CurrentGame, mq, mmLock, mm, tm, ActiveGames, gstate,
                   cmd, moves, reported, starts, ticks, ps, lockIdle>>

\* determineWinner: session.Player1.mu, State = "Menu", CurrentGame = nil
DWPlayer(b) ==
    /\ b \in 1..Len(br)
    /\ br[b].pc = "dwPlayer"
    /\ PlayerMuFree(sess[br[b].sid].p1.name)
    /\ State' = [State EXCEPT ![sess[br[b].sid].p1.name] = StateAfterResult]
    /\ CurrentGame' = [CurrentGame EXCEPT ![sess[br[b].sid].p1.name] = 0]
    /\ br' = [br EXCEPT ![b].pc = "dwGames"]
    /\ UNCHANGED <<out, inbox, home, now, mq, mmLock, mm, tm, ActiveGames, sess, gstate,
                   cmd, moves, reported, starts, ticks, ps, lockIdle>>

\* determineWinner: GamesMutex, delete(ActiveGames, P1), return (session.mu
\* is released)
DWGames(b) ==
    /\ b \in 1..Len(br)
    /\ br[b].pc = "dwGames"
    /\ GamesMutexFree(br[b].inst)
    /\ ActiveGames' = [ActiveGames EXCEPT ![br[b].inst][sess[br[b].sid].p1.name] = 0]
    /\ br' = [br EXCEPT ![b].pc = "del"]
    /\ UNCHANGED <<State, out, inbox, home, now, CurrentGame, mq, mmLock, mm, tm, sess,
                   gstate, cmd, moves, reported, starts, ticks, ps, lockIdle>>

\* listenRedisPubSub, RESULT: player.mu.Lock, State = "Menu"; with no duel
\* the lock is released and the payload forwarded
PRLock(p) ==
    /\ ps[p].pc = "recv"
    /\ inbox[p] # <<>>
    /\ Head(inbox[p]).kind = "RESULT"
    /\ State' = [State EXCEPT ![p] = "Menu"]
    /\ IF CurrentGame[p] # 0
       THEN /\ ps' = [ps EXCEPT ![p].pc = "games"]
            /\ UNCHANGED <<inbox, out>>
       ELSE /\ inbox' = [inbox EXCEPT ![p] = Tail(@)]
            /\ Send(p, Head(inbox[p]).msg)
            /\ UNCHANGED ps
    /\ UNCHANGED <<home, now, CurrentGame, mq, mmLock, mm, tm, ActiveGames, sess, br,
                   gstate, cmd, moves, reported, starts, ticks, lockIdle>>

\* listenRedisPubSub, RESULT: GamesMutex, delete(ActiveGames, gameID),
\* CurrentGame = nil, player.mu released, the payload forwarded
PRGames(p) ==
    /\ ps[p].pc = "games"
    /\ GamesMutexFree(home[p])
    /\ ActiveGames' = [ActiveGames EXCEPT
                          ![home[p]][ResultGameID(sess[CurrentGame[p]])] = 0]
    /\ CurrentGame' = [CurrentGame EXCEPT ![p] = 0]
    /\ ps' = [ps EXCEPT ![p].pc = "recv"]
    /\ inbox' = [inbox EXCEPT ![p] = Tail(@)]
    /\ Send(p, Head(inbox[p]).msg)
    /\ UNCHANGED <<State, home, now, mq, mmLock, mm, tm, sess, br, gstate, cmd, moves,
                   reported, starts, ticks, lockIdle>>

\* FIND_MATCH commands in a run at the level of the locks
MaxLockEnq == 4

\* Searches from Menu, the pairing passes of instance I2, and the three
\* tasks that take an instance's locks, each split at its Lock calls
NextLocks ==
    \/ \E p \in Players :
          Enqueues < MaxLockEnq /\ State[p] = "Menu" /\ PlayerMuFree(p) /\ Enqueue(p)
    \/ \E p \in Players : \E second \in 0..MaxTime : FindMatchZAdd(p, second)
    \/ MMTick("I2")
    \/ MMZRem("I2")
    \/ MMLockExpire
    \/ SLGLock("I2")
    \/ SLGFill("I2")
    \/ SLGPlayer("I2")
    \/ \E b \in 1..Len(br) : SessionMuFree(br[b].sid) /\ BrainTimeout(b)
    \/ \E b \in 1..(2 * MaxEnq) : DWLock(b)
    \/ \E b \in 1..(2 * MaxEnq) : DWPlayer(b)
    \/ \E b \in 1..(2 * MaxEnq) : DWGames(b)
    \/ \E b \in 1..(2 * MaxEnq) : BrainDel(b)
    \/ \E p \in Players : PRLock(p)
    \/ \E p \in Players : PRGames(p)

SpecLocks == InitMatch /\ [][NextLocks]_vars

\* startLocalGame of mm[i] holds GamesMutex and waits for the session.mu that
\* brain b holds inside determineWinner
StartWaitsForBrain(i, b) ==
    /\ mm[i].pc = "session"
    /\ br[b].pc \in {"dwPlayer", "dwGames"}
    /\ mm[i].sid = br[b].sid

\* Brain b holds session.mu and waits for the GamesMutex that the
\* startLocalGame of mm[i] holds
BrainWaitsForStart(b, i) ==
    br[b].pc = "dwGames" /\ mm[i].pc = "session" /\ SLGInst(i) = br[b].inst

\* Brain b holds session.mu and waits for the player.mu that p's RESULT
\* handler holds
BrainWaitsForResult(b, p) ==
    br[b].pc = "dwPlayer" /\ ps[p].pc = "games" /\ sess[br[b].sid].p1.name = p

\* p's RESULT handler holds player.mu and waits for the GamesMutex that the
\* startLocalGame of mm[i] holds
ResultWaitsForStart(p, i) ==
    ps[p].pc = "games" /\ mm[i].pc = "session" /\ SLGInst(i) = home[p]

\* Tasks wait for each other's locks in a cycle
WaitCycle ==
    \E i \in Instances : \E b \in 1..Len(br) :
        /\ StartWaitsForBrain(i, b)
        /\ \/ BrainWaitsForStart(b, i)
           \/ \E p \in Players : BrainWaitsForResult(b, p) /\ ResultWaitsForStart(p, i)

(* C39: the instance-local locks never deadlock. In no reachable state do   *)
(* a startLocalGame, a brain inside determineWinner and a RESULT handler    *)
(* wait for each other's GamesMutex, session.mu and player.mu in a cycle.   *)
C39_NoLockCycle == ~WaitCycle

----------------------------------------------------------------------------
(* Properties of matchmaking *)

\* How many FIND_MATCH commands of its player put ticket t into the queue
EnqueuesOf(t) ==
    IF t.player_name \in Players
    THEN Cardinality({k \in 1..Len(tm[t.player_name]) : tm[t.player_name][k].ticket = t})
    ELSE 0

\* How many times a committed pairing names ticket t
ReportsOf(t) ==
    SeqSum([k \in 1..Len(reported) |->
              (IF reported[k].p1 = t THEN 1 ELSE 0) + (IF reported[k].p2 = t THEN 1 ELSE 0)])

AllTickets == UNION {{tm[p][k].ticket : k \in 1..Len(tm[p])} : p \in Players}

(* C3: whatever the interleaving of enqueues and pairing ticks of the       *)
(* instances, a ticket is reported matched at most as often as it was       *)
(* enqueued, and a pass that reports a pairing found both tickets in        *)
(* matchmaking_queue and removed both in its own ZRem.                      *)
C3_PairedOnceFromQueue ==
    /\ [](\A t \in AllTickets \cup {reported[k].p1 : k \in 1..Len(reported)}
                              \cup {reported[k].p2 : k \in 1..Len(reported)} :
              ReportsOf(t) <= EnqueuesOf(t))
    /\ [][Len(reported') > Len(reported) =>
            /\ Len(reported') = Len(reported) + 1
            /\ Last(reported').p1 # Last(reported').p2
            /\ {Last(reported').p1, Last(reported').p2} \subseteq mq
            /\ {Last(reported').p1, Last(reported').p2} \cap mq' = {}]_vars

\* A pairing was committed while another instance, which had read the same
\* two tickets, is still about to remove them
C3_Witness ==
    /\ Len(reported) = 1
    /\ \E i \in Instances :
          /\ i # reported[1].orch
          /\ mm[i].pc = "zrem"
          /\ mm[i].p1 = reported[1].p1 /\ mm[i].p2 = reported[1].p2

(* C4: in every reachable state matchmaking_queue holds at most one ticket  *)
(* per player name.                                                         *)
C4_OneTicketPerName ==
    \A t1, t2 \in mq : t1.player_name = t2.player_name => t1 = t2

(* C22: a FIND_MATCH is accepted only from phase Menu. A command that goes  *)
(* on to add a ticket to matchmaking_queue and to start a wait timer (the   *)
(* step from the idle command loop to the ZADD) is taken only while the     *)
(* player's phase is Menu.                                                  *)
C22_EnqueueOnlyFromMenu ==
    [][\A p \in Players :
          (cmd[p].pc = "idle" /\ cmd'[p].pc = "zadd") => State[p] = "Menu"]_vars

(* C23: a pairing tick that acquired lock:matchmaker has released it when   *)
(* the tick ends: while no instance is inside a tick, lock:matchmaker is    *)
(* not held.                                                                *)
C23_LockReleasedByTickEnd ==
    (\A i \in Instances : mm[i].pc = "idle") => mmLock = NoLock

\* The step is the ZRem of a pairing pass on instance i
PassRemoves(i) == mm[i].pc = "zrem" /\ mm'[i].pc # "zrem"

\* p has searched, its searches are over, no pairing pass is under way, and
\* p is back in Menu
BackInMenu(p) ==
    /\ State[p] = "Menu" /\ cmd[p].pc = "idle"
    /\ \A i \in Instances : mm[i].pc = "idle"
    /\ tm[p] # <<>> /\ \A k \in 1..Len(tm[p]) : tm[p][k].pc = "done"

\* p was sent MATCH_FOUND or NO_MATCH_FOUND
HasOutcome(p) ==
    \E k \in 1..Len(out[p]) : out[p][k].type \in {"MATCH_FOUND", "NO_MATCH_FOUND"}

(* C34: a ticket leaves matchmaking_queue only together with an outcome for *)
(* its player. A pairing pass whose ZREM finds fewer than two of its        *)
(* tickets removes none, and a player who is back in Menu after Searching   *)
(* has received MATCH_FOUND or NO_MATCH_FOUND.                              *)
C34_TicketLeavesWithOutcome ==
    /\ [][\A i \in Instances :
             (PassRemoves(i) /\ Cardinality({mm[i].p1, mm[i].p2} \cap mq) < 2)
             => mq' = mq]_vars
    /\ [](\A p \in Players : BackInMenu(p) => HasOutcome(p))

(* C35: the two tickets committed by a pairing pass name two distinct        *)
(* players, each in phase Searching when the pass commits.                  *)
C35_PairsDistinctSearching ==
    [][Len(reported') > Len(reported) =>
          LET r == Last(reported')
          IN  /\ r.p1.player_name # r.p2.player_name
              /\ State[r.p1.player_name] = "Searching"
              /\ State[r.p2.player_name] = "Searching"]_vars

\* The match messages of pairing k on p's socket, by kind, in order
StartKinds(p, k) ==
    LET mine == SelectSeq(out[p], LAMBDA m :
                    m.tag = k /\ m.type \in {"MATCH_FOUND", "MATCH_START", "TIMER"})
    IN  [x \in 1..Len(mine) |-> mine[x].type]

StartTriple == <<"MATCH_FOUND", "MATCH_START", "TIMER">>

\* p was dealt two cards for pairing k and told so
Dealt(p, k) ==
    \E x \in 1..Len(out[p]) :
        out[p][x].type = "MATCH_START" /\ out[p][x].tag = k /\ Len(out[p][x].cards) = 2

\* notifyMatchStart of pairing k returned after making all its calls
Completed(k) == reported[k].done /\ ~reported[k].failed

StartsOf(k, j) == {x \in 1..Len(starts) : starts[x].pass = k /\ starts[x].inst = j}

(* C8: when a pairing of two players of one instance has been notified,     *)
(* both players were dealt a 2-card hand and are InGame, and each has       *)
(* received MATCH_FOUND, MATCH_START, TIMER exactly once, in that order.    *)
C8_SameInstanceBothStarted ==
    \A k \in 1..Len(reported) :
        (/\ Completed(k)
         /\ reported[k].p1.server_id = reported[k].p2.server_id
         /\ reported[k].p1.player_name # reported[k].p2.player_name)
        => \A p \in {reported[k].p1.player_name, reported[k].p2.player_name} :
              /\ StartKinds(p, k) = StartTriple
              /\ Dealt(p, k)
              /\ State[p] = "InGame"

(* C9: when a pairing of two players of different instances has been        *)
(* notified, whichever instance made the pairing, startLocalGame ran once   *)
(* on P1's instance for P1 and once on P2's instance for P2 and nowhere     *)
(* else, and each player has received MATCH_FOUND, MATCH_START with two     *)
(* cards, TIMER exactly once, in that order.                                *)
C9_CrossInstanceBothStarted ==
    \A k \in 1..Len(reported) :
        (Completed(k) /\ reported[k].p1.server_id # reported[k].p2.server_id)
        => /\ \A t \in {reported[k].p1, reported[k].p2} :
                 /\ Cardinality(StartsOf(k, t.server_id)) = 1
                 /\ \A x \in StartsOf(k, t.server_id) : starts[x].local = t.player_name
                 /\ StartKinds(t.player_name, k) = StartTriple
                 /\ Dealt(t.player_name, k)
           /\ \A x \in 1..Len(starts) :
                 starts[x].pass = k =>
                    starts[x].inst \in {reported[k].p1.server_id, reported[k].p2.server_id}

\* A pairing of players of two instances was made and notified by the third
C9_Witness ==
    \E k \in 1..Len(reported) :
        /\ Completed(k)
        /\ reported[k].p1.server_id # reported[k].p2.server_id
        /\ reported[k].orch \notin {reported[k].p1.server_id, reported[k].p2.server_id}

NoMatchCount(p) == Len(SelectSeq(out[p], LAMBDA m : m.type = "NO_MATCH_FOUND"))

\* Only p has sent FIND_MATCH, and every wait timer of p has run to its end
LoneAndTimedOut(p) ==
    /\ tm[p] # <<>> /\ cmd[p].pc = "idle"
    /\ \A k \in 1..Len(tm[p]) : tm[p][k].pc = "done"
    /\ \A q \in Players \ {p} : tm[q] = <<>> /\ cmd[q].pc = "idle"

(* C10: when a player has enqueued and no second player was queued, then    *)
(* once its wait timers have run no ticket of the player is left in         *)
(* matchmaking_queue, the player is back in Menu and has received           *)
(* NO_MATCH_FOUND (once per FIND_MATCH at most).                            *)
C10_LoneSearchTimesOut ==
    \A p \in Players :
        LoneAndTimedOut(p)
        => /\ \A t \in mq : t.player_name # p
           /\ State[p] = "Menu"
           /\ NoMatchCount(p) >= 1 /\ NoMatchCount(p) <= Len(tm[p])

\* The ticket of p's latest FIND_MATCH
LastTicket(p) == Last(tm[p]).ticket

\* b enqueued strictly after ticket t and is still in phase Searching
WaitsBehind(b, t) ==
    /\ tm[b] # <<>>
    /\ t.timestamp < LastTicket(b).timestamp
    /\ State[b] = "Searching"

(* C11: pairing is FIFO by enqueue timestamp: once a pairing has been       *)
(* notified, a player of it who is in the match did not enqueue strictly    *)
(* before another player who is still waiting (at most two players are      *)
(* ever queued here).                                                       *)
C11_EarlierNotMatchedWhileLaterWaits ==
    \A k \in 1..Len(reported) :
        Completed(k) =>
           \A t \in {reported[k].p1, reported[k].p2} :
              State[t.player_name] = "InGame"
              => \A b \in Players \ {t.player_name} : ~WaitsBehind(b, t)

\* Runs of startLocalGame made for pairing k, on any instance
StartsFor(k) == {x \in 1..Len(starts) : starts[x].pass = k}

(* C12: when a remote notification of pairing k has failed, the match is    *)
(* aborted as a whole: startLocalGame has run for neither player, no        *)
(* session and no brain exists for the pairing, and no player of it is      *)
(* InGame because of it.                                                    *)
C12_FailedNotifyAbortsMatch ==
    \A k \in 1..Len(reported) :
        reported[k].failed
        => /\ StartsFor(k) = {}
           /\ \A s \in 1..Len(sess) : sess[s].pass # k
           /\ \A b \in 1..Len(br) : sess[br[b].sid].pass # k
           /\ \A p \in {reported[k].p1.player_name, reported[k].p2.player_name} :
                 State[p] = "InGame" => \E x \in 1..Len(starts) :
                                           starts[x].local = p /\ starts[x].pass # k

\* Every wait timer p has started has run to its end
TimersDone(p) == \A x \in 1..Len(tm[p]) : tm[p][x].pc = "done"

(* C13: when a pass has removed the tickets of two players and the match    *)
(* was never started (its first notification failed), then once the wait    *)
(* timers of the two players have run each of them has received             *)
(* NO_MATCH_FOUND and is back in Menu.                                      *)
C13_UnstartedMatchTimesOut ==
    \A k \in 1..Len(reported) :
        (/\ reported[k].failed /\ StartsFor(k) = {}
         /\ reported[k].p1.player_name # reported[k].p2.player_name)
        => \A p \in {reported[k].p1.player_name, reported[k].p2.player_name} :
              (TimersDone(p) /\ cmd[p].pc = "idle")
              => NoMatchCount(p) >= 1 /\ State[p] = "Menu"

\* QUEUED replies on p's socket: the FIND_MATCH commands that put a ticket
\* into the queue
QueuedCount(p) == Len(SelectSeq(out[p], LAMBDA m : m.type = "QUEUED"))

\* The tickets of p in committed pairings for which p was started
MatchStarts(p) ==
    Cardinality({x \in (1..Len(reported)) \X {1, 2} :
        /\ (IF x[2] = 1 THEN reported[x[1]].p1 ELSE reported[x[1]].p2).player_name = p
        /\ \E y \in StartsFor(x[1]) : starts[y].local = p})

(* C40: for one enqueue a player receives MATCH_FOUND or NO_MATCH_FOUND but *)
(* never both. Under every interleaving of wait timers and pairing passes,  *)
(* the tickets from which a player was started in a match and the           *)
(* NO_MATCH_FOUND messages the player was sent are together no more than    *)
(* the player's enqueues: a player with one enqueue gets at most one of the *)
(* two.                                                                     *)
C40_MatchOrNoMatchNotBoth ==
    \A p \in Players : MatchStarts(p) + NoMatchCount(p) <= QueuedCount(p)

\* p's only wait timer woke up, found its ticket and lost the ZRem to a
\* pairing pass: p was started in the match and sent no NO_MATCH_FOUND
C40_Witness ==
    \E p \in Players :
        /\ QueuedCount(p) = 1 /\ Len(tm[p]) = 1
        /\ tm[p][1].pc = "done" /\ tm[p][1].pick = tm[p][1].ticket
        /\ MatchStarts(p) = 1 /\ NoMatchCount(p) = 0

----------------------------------------------------------------------------
(* Properties of duels *)

\* RESULT messages of the duel of pairing k on p's socket
ResultCount(p, k) ==
    Len(SelectSeq(out[p], LAMBDA m : m.type = "RESULT" /\ m.tag = k))

\* Runs of determineWinner that sent the results of the duel of pairing k
Finalisations(k) ==
    SeqSum([x \in 1..Len(sess) |-> IF sess[x].pass = k THEN sess[x].finals ELSE 0])

\* Every brain has ended and every published payload was received
DuelsSettled ==
    /\ br # <<>>
    /\ \A b \in 1..Len(br) : br[b].pc = "done"
    /\ \A p \in Players : inbox[p] = <<>>
    /\ \A i \in Instances : mm[i].pc = "idle"

(* C5: for every started duel of two players, each participant is delivered *)
(* at most one RESULT and the duel is finalised at most once; once the duel *)
(* is over each participant has exactly one RESULT and the duel was         *)
(* finalised exactly once.                                                  *)
C5_OneResultEach ==
    \A k \in 1..Len(reported) :
        (Completed(k) /\ reported[k].p1.player_name # reported[k].p2.player_name)
        => /\ Finalisations(k) <= 1
           /\ \A p \in {reported[k].p1.player_name, reported[k].p2.player_name} :
                 ResultCount(p, k) <= 1
           /\ DuelsSettled =>
                 /\ Finalisations(k) = 1
                 /\ \A p \in {reported[k].p1.player_name, reported[k].p2.player_name} :
                       ResultCount(p, k) = 1

\* p's command loop takes a command while p is in a duel
SendsMove(p) == moves'[p] = moves[p] + 1

\* p's HSet of this step
StoresMove(p) == cmd[p].pc = "hset" /\ cmd'[p].pc = "idle"

(* C17: each player plays at most once per duel. A move is stored only in   *)
(* the player's own field (p1_card for P1, p2_card for P2) of               *)
(* game:state:{p1_name}, only while that field is empty and only if the     *)
(* player has not played in this duel; a move sent by a player who has      *)
(* already played is answered and nothing is stored for it.                 *)
C17_OneMovePerDuel ==
    [][\A p \in Players :
          /\ StoresMove(p)
             => LET s == sess[cmd[p].sid]
                    r == reported[s.pass]
                IN  /\ cmd[p].key = r.p1.player_name
                    /\ cmd[p].field = (IF p = r.p1.player_name THEN "p1_card" ELSE "p2_card")
                    /\ gstate[cmd[p].key][cmd[p].field] = NoCard
                    /\ p \notin s.played
          /\ (SendsMove(p) /\ p \in sess[CurrentGame[p]].played)
             => /\ cmd'[p] = cmd[p]
                /\ Last(out'[p]).type \in {"ALREADY_PLAYED", "INVALID_MOVE"}]_vars

\* The runs of startLocalGame for pairing k that started a brain
\* (go listenForGameEvents), and the brains of pairing k still running
BrainStarts(k) == {x \in StartsFor(k) : starts[x].isP1}
BrainsRunning(k) == {b \in 1..Len(br) : sess[br[b].sid].pass = k /\ br[b].pc # "done"}

(* C18: every started duel has exactly one brain: for a pairing of two      *)
(* players at most one brain was ever started, it was started on P1's       *)
(* instance, never more than one is running, and once the pairing has been  *)
(* notified exactly one was started.                                        *)
C18_OneBrainOnOwner ==
    \A k \in 1..Len(reported) :
        reported[k].p1.player_name # reported[k].p2.player_name
        => /\ Cardinality(BrainStarts(k)) <= 1
           /\ Cardinality(BrainsRunning(k)) <= 1
           /\ \A x \in BrainStarts(k) : starts[x].inst = reported[k].p1.server_id
           /\ Completed(k) => Cardinality(BrainStarts(k)) = 1

\* Brain b has ended and its player is no longer in the duel it ran
BrainOver(b) ==
    /\ b <= Len(br)
    /\ br[b].pc = "done"
    /\ LET owner == sess[br[b].sid].p1.name
       IN  ~(State[owner] = "InGame" /\ CurrentGame[owner] = br[b].sid)

Resolves(b) ==
    /\ br[b].pc = "resolve" /\ br'[b].pc = "del"
    /\ sess'[br[b].sid].finals = sess[br[b].sid].finals + 1

\* The step is the end of brain b
BrainEnds(b) == br[b].pc = "del" /\ br'[b].pc = "done"

(* C25: when the owner resolves a duel, the run of determineWinner leaves   *)
(* the local player in phase Menu with no duel reference and the duel       *)
(* record out of the owner's map, and the brain's last step leaves the      *)
(* store hash game:state:{p1_name} deleted.                                 *)
C25_ResolutionCleansUp ==
    [][\A b \in 1..Len(br) :
          LET p1_name == sess[br[b].sid].p1.name
          IN  /\ Resolves(b) => /\ State'[p1_name] = "Menu"
                                /\ CurrentGame'[p1_name] = 0
                                /\ ActiveGames'[br[b].inst][p1_name] = 0
              /\ BrainEnds(b) => gstate'[p1_name] = NoMoves]_vars

\* A brain resolved a duel in which both moves were stored, and ended
C25_Witness ==
    \E b \in 1..Len(br) :
        LET session == sess[br[b].sid]
        IN  /\ br[b].pc = "done" /\ session.finals = 1
            /\ session.card1 # NoCard /\ session.card2 # NoCard
            /\ State[session.p1.name] = "Menu" /\ CurrentGame[session.p1.name] = 0
            /\ ActiveGames[br[b].inst][session.p1.name] = 0
            /\ gstate[session.p1.name] = NoMoves

\* The step is listenRedisPubSub of p taking a RESULT payload off player:{p}
TakesResult(p) ==
    /\ ps[p].pc = "recv" /\ inbox[p] # <<>> /\ Head(inbox[p]).kind = "RESULT"
    /\ inbox'[p] = Tail(inbox[p])

(* C26: when a RESULT payload arrives on player:{name}, the player's        *)
(* instance sets the player's phase to Menu, clears the player's duel       *)
(* reference, deletes the entry of that duel from its own duel map if it    *)
(* has one, changes no other entry, and forwards the payload to the         *)
(* player's socket.                                                         *)
C26_ResultCleansNonOwner ==
    [][\A p \in Players : TakesResult(p) =>
          /\ State'[p] = "Menu"
          /\ CurrentGame'[p] = 0
          /\ out'[p] = Append(out[p], Head(inbox[p]).msg)
          /\ \A i \in Instances : \A g \in Players :
                ActiveGames'[i][g] =
                   IF /\ CurrentGame[p] # 0 /\ i = home[p]
                      /\ g = sess[CurrentGame[p]].p1.name
                   THEN 0 ELSE ActiveGames[i][g]]_vars

\* Bob, on an instance other than the owner's, was InGame with a local duel
\* record when the RESULT of Alice's brain arrived, and is back in Menu
C26_Witness ==
    /\ home["Bob"] # home["Alice"]
    /\ \E k \in 1..Len(starts) : starts[k].local = "Bob" /\ starts[k].inst = home["Bob"]
    /\ \E b \in 1..Len(br) :
          /\ br[b].inst = home["Alice"] /\ br[b].pc \in {"del", "done"}
          /\ sess[br[b].sid].finals = 1
    /\ \A b \in 1..Len(br) : br[b].inst = home["Bob"] => br[b].pc = "wait"
    /\ inbox["Bob"] = <<>> /\ State["Bob"] = "Menu" /\ CurrentGame["Bob"] = 0
    /\ \A g \in Players : ActiveGames[home["Bob"]][g] = 0
    /\ Len(SelectSeq(out["Bob"], LAMBDA m : m.type = "RESULT")) = 1

\* The step is a run of determineWinner by brain b on a duel record whose
\* results were sent before
RunsAgain(b) ==
    /\ br[b].pc = "resolve" /\ br'[b].pc = "del"
    /\ sess[br[b].sid].finals >= 1

(* C27: resolution runs at most once per duel. The results of a pairing's   *)
(* duel are sent by at most one run of determineWinner, and a run on a duel *)
(* record that was resolved before sends no RESULT and changes no player    *)
(* and no duel state.                                                       *)
C27_ResolvedAtMostOnce ==
    /\ [](\A k \in 1..Len(reported) : Finalisations(k) <= 1)
    /\ [][\A b \in 1..Len(br) : RunsAgain(b) =>
             UNCHANGED <<State, CurrentGame, ActiveGames, sess, out, inbox, gstate>>]_vars

====
